---------------------------- MODULE Spec2Model ----------------------------
(***************************************************************************)
(* A model of resume-as-code: the skill comparison of resume.ai.agents,    *)
(* the style rules of resume.ai.style_rules, the directory resolution of   *)
(* resume.utils, the YAML loader of resume.loader, the HTML builder of     *)
(* resume.builder and the PDF generator of resume.pdf.                     *)
(*                                                                         *)
(* Text is a sequence of one-character strings, so that lower(), prefix,   *)
(* suffix, substring and word-boundary tests are computed and not assumed. *)
(* Each subsystem has its own specification (SpecSkills, SpecStyle, ...)   *)
(* over the same variables; the variables of the other subsystems stay at  *)
(* their idle values.                                                      *)
(***************************************************************************)
EXTENDS Integers, Sequences, FiniteSets, TLC

VARIABLES
    resume_skills,      \* compare_skills: argument resume_skills
    required_skills,    \* compare_skills: argument required_skills
    preferred_skills,   \* compare_skills: argument preferred_skills
    analysis,           \* compare_skills: the SkillGapAnalysis returned
    rules,              \* the StyleRules instance (self)
    bullet,             \* validate_bullet: argument bullet
    content,            \* validate_content: argument content
    style_ret,          \* what the last StyleRules method returned
    fs,                 \* the file system: the directories and the files there are
    yaml,               \* the parsed content of each YAML file
    env,                \* the environment: RESUME_DATA_DIR, XDG_DATA_HOME
    project_root,       \* where the package is installed (get_project_root)
    loader,             \* the ResumeLoader object, once constructed
    ret,                \* what the last utils / loader call returned or raised
    texts,              \* the content of each text file (job.txt, templates, output)
    calls,              \* the Playwright operations invoked so far, in order
    gen                 \* the PDFGenerator method in progress and its position

skillsVars == <<resume_skills, required_skills, preferred_skills, analysis>>

styleVars == <<rules, bullet, content, style_ret>>

filesVars == <<fs, yaml, env, project_root, loader, ret>>

docVars == <<texts, calls, gen>>

vars == <<skillsVars, styleVars, filesVars, docVars>>

-----------------------------------------------------------------------------
(* Text *)

UpperSeq ==
    <<"A","B","C","D","E","F","G","H","I","J","K","L","M",
      "N","O","P","Q","R","S","T","U","V","W","X","Y","Z">>

LowerSeq ==
    <<"a","b","c","d","e","f","g","h","i","j","k","l","m",
      "n","o","p","q","r","s","t","u","v","w","x","y","z">>

Range(s) == {s[i] : i \in 1..Len(s)}

UpperChars == Range(UpperSeq)

LowerChars == Range(LowerSeq)

IsUpperChar(c) == c \in UpperChars

IsLowerChar(c) == c \in LowerChars

\* The lower-case letter of each upper-case letter.
LowerOf ==
    [c \in UpperChars |->
        LowerSeq[CHOOSE i \in 1..Len(UpperSeq) : UpperSeq[i] = c]]

\* str.lower() on one character: an upper-case letter maps to its lower-case
\* letter, everything else to itself.
LowerChar(c) == IF IsUpperChar(c) THEN LowerOf[c] ELSE c

\* str.lower()
Lower(s) == [i \in 1..Len(s) |-> LowerChar(s[i])]

RECURSIVE Concat(_)
Concat(seqs) == IF seqs = <<>> THEN <<>> ELSE Head(seqs) \o Concat(Tail(seqs))

-----------------------------------------------------------------------------
(* resume.ai.agents.compare_skills *)

\* The set comprehension {s.lower() for s in skills}.
LowerSet(skills) == {Lower(skills[i]) : i \in 1..Len(skills)}

InResumeNoLower(skill, resume) == skill \in Range(resume)

\* skill.lower() in resume_skills_lower
InResume(skill, resume) == Lower(skill) \in LowerSet(resume)

MatchingWithPreferred(resume, required) ==
    SelectSeq(required \o preferred_skills, LAMBDA s : InResume(s, resume))

\* matching: the loop over required_skills appends the entries found in the resume.
Matching(resume, required) ==
    SelectSeq(required, LAMBDA s : InResume(s, resume))

MissingRequired(resume, required) ==
    SelectSeq(required, LAMBDA s : ~InResume(s, resume))

MissingPreferred(resume, preferred) ==
    SelectSeq(preferred, LAMBDA s : ~InResume(s, resume))

RoundTenthsDown(m, n) == {(1000 * m) \div n}

\* round(m / n * 100, 1), in tenths of a percent.  Away from a tie the result is
\* the nearest tenth.  At an exact tie (1000m/n = q + 1/2) the float product
\* m / n * 100 may land on either side of the tie, so either neighbour can be
\* the result.
RoundTenths(m, n) ==
    LET q == (1000 * m) \div n
        r == (1000 * m) % n
    IN  IF 2 * r < n THEN {q}
        ELSE IF 2 * r > n THEN {q + 1}
        ELSE {q, q + 1}

\* skill_match_percentage, in tenths: round(match_pct, 1) where match_pct is
\* len(matching) / len(required_skills) * 100, or 100.0 for no required skills.
MatchPct(nmatch, nreq) ==
    IF nreq > 0 THEN RoundTenths(nmatch, nreq) ELSE {1000}

Rec(kind, n) == [kind |-> kind, n |-> n]

RecommendationsStrongAt60(nmatch, nreq, nmissreq, nmisspref) ==
    (IF nmissreq > 0 THEN <<Rec("consider_adding_required", nmissreq)>> ELSE <<>>)
    \o (IF nreq > 0 /\ 100 * nmatch < 70 * nreq
        THEN <<Rec("less_than_70", 0)>> ELSE <<>>)
    \o (IF 5 * nmatch >= 3 * nreq THEN <<Rec("strong_match", 0)>> ELSE <<>>)
    \o (IF nmisspref > 0 /\ nmisspref <= 3
        THEN <<Rec("highlight_preferred", 0)>> ELSE <<>>)

\* The recommendations list, built in the order of the four ifs.
Recommendations(nmatch, nreq, nmissreq, nmisspref) ==
    (IF nmissreq > 0 THEN <<Rec("consider_adding_required", nmissreq)>> ELSE <<>>)
    \o (IF nreq > 0 /\ 100 * nmatch < 70 * nreq
        THEN <<Rec("less_than_70", 0)>> ELSE <<>>)
    \o (IF 5 * nmatch >= 4 * nreq THEN <<Rec("strong_match", 0)>> ELSE <<>>)
    \o (IF nmisspref > 0 /\ nmisspref <= 3
        THEN <<Rec("highlight_preferred", 0)>> ELSE <<>>)

NoAnalysis ==
    [done |-> FALSE, missing_required_skills |-> <<>>,
     missing_preferred_skills |-> <<>>, matching_skills |-> <<>>,
     skill_match_percentage |-> 0, recommendations |-> <<>>]

compare_skills ==
    /\ ~analysis.done
    /\ LET matching == Matching(resume_skills, required_skills)
           missing_required == MissingRequired(resume_skills, required_skills)
           missing_preferred == MissingPreferred(resume_skills, preferred_skills)
       IN  \E pct \in MatchPct(Len(matching), Len(required_skills)) :
               analysis' =
                   [done |-> TRUE,
                    missing_required_skills |-> missing_required,
                    missing_preferred_skills |-> missing_preferred,
                    matching_skills |-> matching,
                    skill_match_percentage |-> pct,
                    recommendations |->
                        Recommendations(Len(matching), Len(required_skills),
                                        Len(missing_required),
                                        Len(missing_preferred))]
    /\ UNCHANGED <<resume_skills, required_skills, preferred_skills>>
    /\ UNCHANGED <<styleVars, filesVars, docVars>>

\* A caller passing the next arguments.
NewSkillsCall ==
    /\ analysis.done
    /\ analysis' = NoAnalysis
    /\ UNCHANGED <<resume_skills, required_skills, preferred_skills>>
    /\ UNCHANGED <<styleVars, filesVars, docVars>>

-----------------------------------------------------------------------------
(* resume.ai.style_rules.StyleRules *)

\* The characters U+2014 (em dash) and U+2013 (en dash), one character each.
EmDash == "U+2014"

EnDash == "U+2013"

Digits == {"0","1","2","3","4","5","6","7","8","9"}

\* A character the regular expression class \w matches.
IsWordChar(c) == IsUpperChar(c) \/ IsLowerChar(c) \/ c \in Digits \/ c = "_"

\* sub in text
Contains(text, sub) ==
    \E i \in 0..(Len(text) - Len(sub)) : SubSeq(text, i + 1, i + Len(sub)) = sub

\* text.startswith(prefix)
StartsWith(text, prefix) ==
    Len(prefix) <= Len(text) /\ SubSeq(text, 1, Len(prefix)) = prefix

\* text.endswith(suffix)
EndsWith(text, suffix) ==
    /\ Len(suffix) <= Len(text)
    /\ SubSeq(text, Len(text) - Len(suffix) + 1, Len(text)) = suffix

HeadLen == 50

\* bullet[:50]
Head50(text) == SubSeq(text, 1, IF Len(text) < HeadLen THEN Len(text) ELSE HeadLen)

\* re.search(r"\bword\b", text, re.IGNORECASE) for a word of \w characters: an
\* occurrence in any letter case with no \w character right before or after it.
SearchWord(word, text) ==
    \E i \in 0..(Len(text) - Len(word)) :
        /\ Lower(SubSeq(text, i + 1, i + Len(word))) = Lower(word)
        /\ i = 0 \/ ~IsWordChar(text[i])
        /\ i + Len(word) = Len(text) \/ ~IsWordChar(text[i + Len(word) + 1])

weak_starts ==
    << <<"r","e","s","p","o","n","s","i","b","l","e"," ","f","o","r">>,
       <<"d","u","t","i","e","s"," ","i","n","c","l","u","d","e","d">>,
       <<"w","o","r","k","e","d"," ","o","n">>,
       <<"h","e","l","p","e","d"," ","w","i","t","h">> >>

first_person_patterns ==
    << <<"I">>, <<"m","y">>, <<"m","i","n","e">>, <<"w","e">>,
       <<"o","u","r">>, <<"o","u","r","s">> >>

default_buzzwords ==
    << <<"s","y","n","e","r","g","y">>, <<"r","o","c","k","s","t","a","r">>,
       <<"n","i","n","j","a">>, <<"g","u","r","u">>,
       <<"w","i","z","a","r","d">>, <<"u","n","i","c","o","r","n">> >>

Msg(kind, text, n, max, word) ==
    [kind |-> kind, head |-> Head50(text), n |-> n, max |-> max, word |-> word]

\* not bullet or not bullet[0].isupper()
NoCapitalStart(text) == text = <<>> \/ ~IsUpperChar(text[1])

\* any(bullet.lower().startswith(weak) for weak in weak_starts)
WeakStart(text) ==
    \E k \in 1..Len(weak_starts) : StartsWith(Lower(text), weak_starts[k])

FirstPersonFoundAnywhere(text) ==
    \E k \in 1..Len(first_person_patterns) :
        Contains(Lower(text), Lower(first_person_patterns[k]))

\* The loop over first_person_patterns, which breaks at the first match.
FirstPersonFound(text) ==
    \E k \in 1..Len(first_person_patterns) :
        SearchWord(first_person_patterns[k], text)

\* The loop over no_buzzwords: one message per entry found, in list order.
RECURSIVE BuzzwordMsgs(_, _)
BuzzwordMsgs(words, text) ==
    IF words = <<>> THEN <<>>
    ELSE (IF Contains(Lower(text), Lower(Head(words)))
          THEN <<Msg("buzzword", text, 0, 0, Head(words))>> ELSE <<>>)
         \o BuzzwordMsgs(Tail(words), text)

\* StyleRules.validate_bullet
ValidateBullet(r, text) ==
    (IF r.no_em_dashes /\ Contains(text, <<EmDash>>)
     THEN <<Msg("em_dash", text, 0, 0, <<>>)>> ELSE <<>>)
    \o (IF r.no_en_dashes /\ Contains(text, <<EnDash>>)
        THEN <<Msg("en_dash", text, 0, 0, <<>>)>> ELSE <<>>)
    \o (IF Len(text) > r.max_bullet_length
        THEN <<Msg("too_long", text, Len(text), r.max_bullet_length, <<>>)>>
        ELSE <<>>)
    \o (IF r.action_verb_start /\ NoCapitalStart(text)
        THEN <<Msg("no_capital", text, 0, 0, <<>>)>> ELSE <<>>)
    \o (IF r.action_verb_start /\ WeakStart(text)
        THEN <<Msg("weak_verb", text, 0, 0, <<>>)>> ELSE <<>>)
    \o (IF r.no_first_person /\ FirstPersonFound(text)
        THEN <<Msg("first_person", text, 0, 0, <<>>)>> ELSE <<>>)
    \o BuzzwordMsgs(r.no_buzzwords, text)
    \o (IF r.bullet_end_punctuation # <<>>
           /\ ~EndsWith(text, r.bullet_end_punctuation)
        THEN <<Msg("end_punctuation", text, 0, 0, r.bullet_end_punctuation)>>
        ELSE <<>>)

\* The inner loop of validate_content: the bullets of one experience.
RECURSIVE ValidateBullets(_, _)
ValidateBullets(r, bullets) ==
    IF bullets = <<>> THEN <<>>
    ELSE ValidateBullet(r, Head(bullets)) \o ValidateBullets(r, Tail(bullets))

\* exp.get("achievements", [])
Achievements(exp) == IF exp.has_achievements THEN exp.achievements ELSE <<>>

\* content.get("experiences", [])
Experiences(c) == IF c.has_experiences THEN c.experiences ELSE <<>>

RECURSIVE ValidateExperiencesFirstOnly(_, _)
ValidateExperiencesFirstOnly(r, exps) ==
    IF exps = <<>> THEN <<>>
    ELSE (IF Achievements(Head(exps)) = <<>> THEN <<>>
          ELSE ValidateBullet(r, Head(Achievements(Head(exps)))))
         \o ValidateExperiencesFirstOnly(r, Tail(exps))

\* The outer loop of validate_content.
RECURSIVE ValidateExperiences(_, _)
ValidateExperiences(r, exps) ==
    IF exps = <<>> THEN <<>>
    ELSE ValidateBullets(r, Achievements(Head(exps)))
         \o ValidateExperiences(r, Tail(exps))

\* StyleRules.validate_content
ValidateContent(r, c) == ValidateExperiences(r, Experiences(c))

NoStyleRet == [op |-> "none", violations |-> <<>>]

validate_bullet ==
    /\ style_ret.op = "none"
    /\ style_ret' = [op |-> "validate_bullet",
                     violations |-> ValidateBullet(rules, bullet)]
    /\ UNCHANGED <<rules, bullet, content>>
    /\ UNCHANGED <<skillsVars, filesVars, docVars>>

validate_content ==
    /\ style_ret.op = "none"
    /\ style_ret' = [op |-> "validate_content",
                     violations |-> ValidateContent(rules, content)]
    /\ UNCHANGED <<rules, bullet, content>>
    /\ UNCHANGED <<skillsVars, filesVars, docVars>>

\* The caller takes the list; the rules object can be used again.
StyleReturn ==
    /\ style_ret.op # "none"
    /\ style_ret' = NoStyleRet
    /\ UNCHANGED <<rules, bullet, content>>
    /\ UNCHANGED <<skillsVars, filesVars, docVars>>

-----------------------------------------------------------------------------
(* pathlib paths and the file system *)

\* A path is the sequence of its components.  An absolute path starts with
\* "/", a path under the user's home may start with "~", and the empty
\* sequence is the empty string.
Root == <<"/">>

\* Path.home()
Home == <<"/", "h">>

\* The working directory of the process: the tool is run from its checkout.
Cwd == project_root

IsAbsolute(p) == p # <<>> /\ p[1] = "/"

\* path / name
Join(p, name) == Append(p, name)

\* path.parent
Parent(p) == IF Len(p) <= 1 THEN p ELSE SubSeq(p, 1, Len(p) - 1)

\* path.name
Name(p) == IF Len(p) <= 1 THEN "" ELSE p[Len(p)]

\* A path and the directories above it.
Ancestors(p) == {SubSeq(p, 1, k) : k \in 1..Len(p)}

\* Path(p) of a str or Path p: "." components are dropped.
PathOf(p) == SelectSeq(p, LAMBDA c : c # ".")

\* Path.expanduser()
ExpandUser(p) == IF p # <<>> /\ p[1] = "~" THEN Home \o Tail(p) ELSE p

\* Path.resolve(): a relative path is taken from the working directory.
Resolve(p) == IF IsAbsolute(p) THEN p ELSE Cwd \o p

\* Path.exists()
Exists(f, p) == Resolve(p) \in f.dirs \cup f.files

\* Path.mkdir(exist_ok=True), without parents=True.
MkdirNothing(f, p) == [status |-> "ok", fs |-> f]

Mkdir(f, p) ==
    IF Resolve(p) \in f.dirs THEN [status |-> "ok", fs |-> f]
    ELSE IF Resolve(p) \in f.files THEN [status |-> "FileExistsError", fs |-> f]
    ELSE IF Parent(Resolve(p)) \notin f.dirs
         THEN [status |-> "FileNotFoundError", fs |-> f]
    ELSE [status |-> "ok", fs |-> [f EXCEPT !.dirs = @ \cup {Resolve(p)}]]

-----------------------------------------------------------------------------
(* resume.utils: get_data_dir, get_output_dir *)

\* os.getenv(name) is truthy: the variable is set and not empty.
EnvGiven(v) == v.set /\ v.value # <<>>

\* get_project_root()
GetProjectRoot == project_root

RepoNames == {"resume-as-code", "resume-as-code-private"}

\* The loop of _validate_data_dir_safety: TRUE when it raises ValueError.
RECURSIVE UnsafeFrom(_, _)
UnsafeFrom(f, current) ==
    IF current = Parent(current) THEN FALSE
    ELSE \/ Exists(f, Join(current, ".git")) /\ Name(current) \in RepoNames
         \/ UnsafeFrom(f, Parent(current))

\* _validate_data_dir_safety raises ValueError
Unsafe(f, data_dir) == UnsafeFrom(f, Resolve(data_dir))

Ok(path) == [status |-> "ok", path |-> path]

Raised(error) == [status |-> error, path |-> <<>>]

Validated(f, path) == IF Unsafe(f, path) THEN Raised("ValueError") ELSE Ok(path)

\* Priorities 3 to 5 of get_data_dir.
DataDirFromXdg(f, e) ==
    IF EnvGiven(e.XDG_DATA_HOME)
       /\ Exists(f, Join(e.XDG_DATA_HOME.value, "resume-as-code"))
    THEN Validated(f, Join(e.XDG_DATA_HOME.value, "resume-as-code"))
    ELSE IF Exists(f, Home \o <<".local", "share", "resume-as-code">>)
    THEN Validated(f, Home \o <<".local", "share", "resume-as-code">>)
    ELSE Ok(Join(GetProjectRoot, "data"))

GetDataDirEnvFirst(f, e, custom) ==
    IF EnvGiven(e.RESUME_DATA_DIR)
    THEN Validated(f, Resolve(ExpandUser(e.RESUME_DATA_DIR.value)))
    ELSE IF EnvGiven(custom)
    THEN Validated(f, Resolve(ExpandUser(custom.value)))
    ELSE DataDirFromXdg(f, e)

\* get_data_dir(custom_path); custom.set is FALSE for None.
GetDataDir(f, e, custom) ==
    IF EnvGiven(custom)
    THEN Validated(f, Resolve(ExpandUser(custom.value)))
    ELSE IF EnvGiven(e.RESUME_DATA_DIR)
    THEN Validated(f, Resolve(ExpandUser(e.RESUME_DATA_DIR.value)))
    ELSE DataDirFromXdg(f, e)

\* The directory get_output_dir computes before it creates it.
OutputDir(e) ==
    IF EnvGiven(e.RESUME_DATA_DIR)
    THEN Join(Resolve(ExpandUser(e.RESUME_DATA_DIR.value)), "output")
    ELSE Join(GetProjectRoot, "output")

NoRet == [op |-> "none", status |-> "none", value |-> <<>>, arg |-> <<>>]

Unset == [set |-> FALSE, value |-> <<>>]

Given(p) == [set |-> TRUE, value |-> p]

\* The custom_path arguments of get_data_dir: None, "", "data", "~/d".
CustomPaths == {Unset, Given(<<>>), Given(<<"data">>), Given(<<"~", "d">>)}

get_data_dir ==
    /\ ret.op = "none"
    /\ \E custom \in CustomPaths :
          LET r == GetDataDir(fs, env, custom)
          IN  ret' = [op |-> "get_data_dir", status |-> r.status,
                      value |-> r.path, arg |-> custom]
    /\ UNCHANGED <<fs, yaml, env, project_root, loader>>
    /\ UNCHANGED <<skillsVars, styleVars, docVars>>

get_output_dir ==
    /\ ret.op = "none"
    /\ LET r == Mkdir(fs, OutputDir(env))
       IN  /\ fs' = r.fs
           /\ ret' = [op |-> "get_output_dir", status |-> r.status,
                      value |-> IF r.status = "ok" THEN OutputDir(env) ELSE <<>>,
                      arg |-> <<>>]
    /\ UNCHANGED <<yaml, env, project_root, loader>>
    /\ UNCHANGED <<skillsVars, styleVars, docVars>>

\* The caller takes the result or the exception.
UtilsReturn ==
    /\ ret.op # "none"
    /\ gen.pc = "idle"
    /\ ret' = NoRet
    /\ UNCHANGED <<fs, yaml, env, project_root, loader>>
    /\ UNCHANGED <<skillsVars, styleVars, docVars>>

-----------------------------------------------------------------------------
(* resume.utils.load_yaml and resume.loader.ResumeLoader *)

\* None
None == "<None>"

\* A parsed YAML document: null for an empty file, else a mapping with the keys
\* in keys (the other fields are fillers).
Doc(keys, name, title, contact, experiences, skills) ==
    [null |-> FALSE, keys |-> keys, name |-> name, title |-> title,
     contact |-> contact, experiences |-> experiences, skills |-> skills,
     content |-> "", text |-> "", link_text |-> ""]

NoContact == [keys |-> {}, email |-> "", phone |-> ""]

NullDoc == [Doc({}, "", "", NoContact, <<>>, <<>>) EXCEPT !.null = TRUE]

\* load_yaml(file_path)
LoadYaml(f, y, path) ==
    IF ~Exists(f, path) THEN [status |-> "FileNotFoundError", doc |-> NullDoc]
    ELSE [status |-> "ok", doc |-> y[Resolve(path)]]

ProfileDirWithoutProfiles(data_dir, profile) == Join(data_dir, profile)

\* self.data_dir / "profiles" / profile
ProfileDir(data_dir, profile) == Join(Join(data_dir, "profiles"), profile)

NoLoader ==
    [constructed |-> FALSE, profile |-> "", data_dir |-> <<>>,
     common_dir |-> <<>>, profile_dir |-> <<>>]

\* ResumeLoader.__init__: the loader, or the exception raised.
NewLoader(f, e, profile) ==
    LET d == GetDataDir(f, e, Unset)
    IN  IF d.status # "ok"
        THEN [status |-> d.status, value |-> <<"SAFETY ERROR">>, loader |-> NoLoader]
        ELSE IF ~Exists(f, ProfileDir(d.path, profile))
        THEN [status |-> "ValueError",
              value |-> <<"Profile not found: ", profile>>, loader |-> NoLoader]
        ELSE [status |-> "ok", value |-> <<>>,
              loader |-> [constructed |-> TRUE, profile |-> profile,
                          data_dir |-> d.path,
                          common_dir |-> Join(d.path, "common"),
                          profile_dir |-> ProfileDir(d.path, profile)]]

UpdateKeepCommon(common, profile) ==
    [common EXCEPT
        !.keys = @ \cup profile.keys,
        !.name = IF "name" \in common.keys THEN @ ELSE profile.name,
        !.title = IF "title" \in common.keys THEN @ ELSE profile.title,
        !.contact = IF "contact" \in common.keys THEN @ ELSE profile.contact]

\* common_data.update(profile_data)
Update(common, profile) ==
    [common EXCEPT
        !.keys = @ \cup profile.keys,
        !.name = IF "name" \in profile.keys THEN profile.name ELSE @,
        !.title = IF "title" \in profile.keys THEN profile.title ELSE @,
        !.contact = IF "contact" \in profile.keys THEN profile.contact ELSE @]

\* ContactInfo(**contact_data): email is required, phone defaults to None.
ContactInfo(c) ==
    [email |-> c.email, phone |-> IF "phone" \in c.keys THEN c.phone ELSE None]

Fail(error) == [status |-> error, value |-> <<>>]

\* Lines 58-63 of load_header, on the merged mapping.
MakeHeader(d) ==
    IF "contact" \notin d.keys \/ "name" \notin d.keys \/ "title" \notin d.keys
    THEN Fail("KeyError")
    ELSE IF "email" \notin d.contact.keys THEN Fail("ValidationError")
    ELSE [status |-> "ok",
          value |-> [name |-> d.name, title |-> d.title,
                     contact |-> ContactInfo(d.contact)]]

\* ResumeLoader.load_header
LoadHeader(f, y, l) ==
    LET common == LoadYaml(f, y, Join(l.common_dir, "header.yml"))
        profile_header == Join(l.profile_dir, "header.yml")
    IN  IF common.status # "ok" THEN Fail(common.status)
        ELSE IF common.doc.null THEN Fail("AttributeError")
        ELSE IF Exists(f, profile_header)
        THEN IF LoadYaml(f, y, profile_header).doc.null THEN Fail("TypeError")
             ELSE MakeHeader(Update(common.doc, LoadYaml(f, y, profile_header).doc))
        ELSE MakeHeader(common.doc)

DigitSeq == <<"0","1","2","3","4","5","6","7","8","9">>

\* int(s) for a string of decimal digits
RECURSIVE ParseInt(_)
ParseInt(s) ==
    IF s = <<>> THEN 0
    ELSE 10 * ParseInt(SubSeq(s, 1, Len(s) - 1))
         + ((CHOOSE k \in 1..10 : DigitSeq[k] = s[Len(s)]) - 1)

\* s.split("-")
RECURSIVE Split(_)
Split(s) ==
    IF \A i \in 1..Len(s) : s[i] # "-" THEN <<s>>
    ELSE LET i == CHOOSE j \in 1..Len(s) :
                      s[j] = "-" /\ \A k \in 1..(j - 1) : s[k] # "-"
         IN  <<SubSeq(s, 1, i - 1)>> \o Split(SubSeq(s, i + 1, Len(s)))

\* ResumeLoader._parse_date: the date as <<year, month, day>>
ParseDate(s) ==
    <<ParseInt(Split(s)[1]), ParseInt(Split(s)[2]), ParseInt(Split(s)[3])>>

\* Lines 95-109 of load_experience: one Experience from one entry.
ToExperience(x) ==
    [company |-> x.company,
     title |-> x.title,
     start_date |-> ParseDate(x.start_date),
     end_date |-> IF "end_date" \in x.keys /\ x.end_date # <<>>
                  THEN ParseDate(x.end_date) ELSE <<>>,
     current |-> IF "current" \in x.keys THEN x.current ELSE FALSE,
     achievements |-> IF "achievements" \in x.keys THEN x.achievements ELSE <<>>]

IsCurrentFlagOnly(exp) == exp.current

\* Experience.is_current: self.current or self.end_date is None.  A date is
\* <<year, month, day>> and None is <<>>.
IsCurrent(exp) == exp.current \/ exp.end_date = <<>>

\* Skill(**skill_data)
ToSkill(s) ==
    [name |-> s.name,
     category |-> IF "category" \in s.keys THEN s.category ELSE None,
     proficiency |-> IF "proficiency" \in s.keys THEN s.proficiency ELSE None]

ChooseFileCommonFirst(f, l, name) ==
    IF Exists(f, Join(l.common_dir, name))
    THEN Join(l.common_dir, name) ELSE Join(l.profile_dir, name)

\* The file load_experience and load_skills read: the profile's when it
\* exists, else the common one.
ChooseFile(f, l, name) ==
    IF Exists(f, Join(l.profile_dir, name))
    THEN Join(l.profile_dir, name) ELSE Join(l.common_dir, name)

\* ResumeLoader.load_experience
LoadExperience(f, y, l) ==
    LET data == LoadYaml(f, y, ChooseFile(f, l, "experience.yml"))
    IN  IF data.status # "ok" THEN Fail(data.status)
        ELSE IF data.doc.null THEN Fail("TypeError")
        ELSE IF "experiences" \notin data.doc.keys THEN Fail("KeyError")
        ELSE [status |-> "ok",
              value |-> [i \in 1..Len(data.doc.experiences) |->
                            ToExperience(data.doc.experiences[i])]]

\* ResumeLoader.load_skills
LoadSkills(f, y, l) ==
    LET data == LoadYaml(f, y, ChooseFile(f, l, "skills.yml"))
    IN  IF data.status # "ok" THEN Fail(data.status)
        ELSE IF data.doc.null THEN Fail("TypeError")
        ELSE IF "skills" \notin data.doc.keys THEN Fail("KeyError")
        ELSE [status |-> "ok",
              value |-> [i \in 1..Len(data.doc.skills) |->
                            ToSkill(data.doc.skills[i])]]

Profiles == {"p1", "p2"}

\* ResumeLoader(profile)
ResumeLoader ==
    /\ ret.op = "none"
    /\ \E profile \in Profiles :
          LET r == NewLoader(fs, env, profile)
          IN  /\ ret' = [op |-> "ResumeLoader", status |-> r.status,
                         value |-> r.value, arg |-> profile]
              /\ loader' = IF r.status = "ok" THEN r.loader ELSE loader
    /\ UNCHANGED <<fs, env, project_root, yaml>>
    /\ UNCHANGED <<skillsVars, styleVars, docVars>>

load_header ==
    /\ ret.op = "none"
    /\ loader.constructed
    /\ LET r == LoadHeader(fs, yaml, loader)
       IN  ret' = [op |-> "load_header", status |-> r.status,
                   value |-> r.value, arg |-> <<>>]
    /\ UNCHANGED <<fs, env, project_root, yaml, loader>>
    /\ UNCHANGED <<skillsVars, styleVars, docVars>>

load_experience ==
    /\ ret.op = "none"
    /\ loader.constructed
    /\ LET r == LoadExperience(fs, yaml, loader)
       IN  ret' = [op |-> "load_experience", status |-> r.status,
                   value |-> r.value, arg |-> <<>>]
    /\ UNCHANGED <<fs, env, project_root, yaml, loader>>
    /\ UNCHANGED <<skillsVars, styleVars, docVars>>

load_skills ==
    /\ ret.op = "none"
    /\ loader.constructed
    /\ LET r == LoadSkills(fs, yaml, loader)
       IN  ret' = [op |-> "load_skills", status |-> r.status,
                   value |-> r.value, arg |-> <<>>]
    /\ UNCHANGED <<fs, env, project_root, yaml, loader>>
    /\ UNCHANGED <<skillsVars, styleVars, docVars>>

\* Text files.  A text is a sequence of strings, each one character or one
\* run of characters that is never split.  CR and LF are "\r" and "\n".
CR == "<CR>"

LF == "<LF>"

\* Text mode with newline=None on reading: "\r\n" and "\r" become "\n".
RECURSIVE UniversalNewlines(_)
UniversalNewlines(s) ==
    IF s = <<>> THEN <<>>
    ELSE IF s[1] = CR
    THEN <<LF>> \o UniversalNewlines(IF Len(s) >= 2 /\ s[2] = LF
                                     THEN SubSeq(s, 3, Len(s)) ELSE Tail(s))
    ELSE <<s[1]>> \o UniversalNewlines(Tail(s))

\* Path.read_text() of a regular file
ReadText(t, path) == UniversalNewlines(t[Resolve(path)])

\* read_text_file(file_path)
ReadTextFile(f, t, path) ==
    IF ~Exists(f, path) THEN Fail("FileNotFoundError")
    ELSE IF Resolve(path) \in f.dirs THEN Fail("IsADirectoryError")
    ELSE [status |-> "ok", value |-> ReadText(t, path)]

\* ResumeLoader.load_job_description
LoadJobDescription(f, t, l) ==
    IF ~Exists(f, Join(l.profile_dir, "job.txt"))
    THEN [status |-> "FileNotFoundError",
          value |-> <<"No job description found for profile: ", l.profile>>]
    ELSE ReadTextFile(f, t, Join(l.profile_dir, "job.txt"))

\* ResumeLoader.load_summary
LoadSummary(f, y, l) ==
    LET data == LoadYaml(f, y, Join(l.profile_dir, "summary.yml"))
    IN  IF data.status # "ok" THEN Fail(data.status)
        ELSE IF data.doc.null THEN Fail("TypeError")
        ELSE IF "content" \notin data.doc.keys THEN Fail("KeyError")
        ELSE [status |-> "ok", value |-> [content |-> data.doc.content]]

\* Optional[Footer]: None, or a Footer.
NoFooter == [none |-> TRUE, text |-> "", link_text |-> ""]

\* Footer(**data): text is required, link_text defaults to None.
ToFooter(d) ==
    [none |-> FALSE, text |-> d.text,
     link_text |-> IF "link_text" \in d.keys THEN d.link_text ELSE None]

LoadFooterRequired(f, y, l) ==
    LET data == LoadYaml(f, y, Join(l.common_dir, "footer.yml"))
    IN  IF data.status # "ok" THEN Fail(data.status)
        ELSE IF data.doc.null THEN Fail("TypeError")
        ELSE IF "text" \notin data.doc.keys THEN Fail("ValidationError")
        ELSE [status |-> "ok", value |-> ToFooter(data.doc)]

\* ResumeLoader.load_footer
LoadFooter(f, y, l) ==
    IF ~Exists(f, Join(l.common_dir, "footer.yml"))
    THEN [status |-> "ok", value |-> NoFooter]
    ELSE LET data == LoadYaml(f, y, Join(l.common_dir, "footer.yml"))
         IN  IF data.doc.null THEN Fail("TypeError")
             ELSE IF "text" \notin data.doc.keys THEN Fail("ValidationError")
             ELSE [status |-> "ok", value |-> ToFooter(data.doc)]

\* ResumeLoader.load_resume: the arguments of Resume(...) are evaluated in
\* order, and the first exception ends the call.
LoadResume(f, y, l) ==
    LET header == LoadHeader(f, y, l)
        summary == LoadSummary(f, y, l)
        experience == LoadExperience(f, y, l)
        skills == LoadSkills(f, y, l)
        footer == LoadFooter(f, y, l)
    IN  IF header.status # "ok" THEN Fail(header.status)
        ELSE IF summary.status # "ok" THEN Fail(summary.status)
        ELSE IF experience.status # "ok" THEN Fail(experience.status)
        ELSE IF skills.status # "ok" THEN Fail(skills.status)
        ELSE IF footer.status # "ok" THEN Fail(footer.status)
        ELSE [status |-> "ok",
              value |-> [header |-> header.value, summary |-> summary.value,
                         experience |-> experience.value,
                         skills |-> skills.value, footer |-> footer.value]]

\* Path.iterdir(): the entries of a directory
IterDir(f, dir) ==
    {p \in f.dirs \cup f.files : p # Resolve(dir) /\ Parent(p) = Resolve(dir)}

SubdirNamesAndFiles(f, dir) == {Name(p) : p \in IterDir(f, dir)}

\* {p.name for p in dir.iterdir() if p.is_dir()}
SubdirNames(f, dir) == {Name(p) : p \in IterDir(f, dir) \cap f.dirs}

\* The lists that hold each element of S once: iterdir() yields the entries
\* in an order the operating system chooses.
Listings(S) ==
    {l \in [1..Cardinality(S) -> S] : \A i, j \in DOMAIN l : l[i] = l[j] => i = j}

\* get_available_profiles(): the status, and the names it lists.
GetAvailableProfiles(f, e) ==
    LET d == GetDataDir(f, e, Unset)
    IN  IF d.status # "ok" THEN [status |-> d.status, names |-> {}]
        ELSE IF ~Exists(f, Join(d.path, "profiles"))
        THEN [status |-> "ok", names |-> {}]
        ELSE IF Resolve(Join(d.path, "profiles")) \in f.files
        THEN [status |-> "NotADirectoryError", names |-> {}]
        ELSE [status |-> "ok", names |-> SubdirNames(f, Join(d.path, "profiles"))]

load_job_description ==
    /\ ret.op = "none"
    /\ loader.constructed
    /\ LET r == LoadJobDescription(fs, texts, loader)
       IN  ret' = [op |-> "load_job_description", status |-> r.status,
                   value |-> r.value, arg |-> <<>>]
    /\ UNCHANGED <<fs, env, project_root, yaml, loader>>
    /\ UNCHANGED <<skillsVars, styleVars, docVars>>

load_footer ==
    /\ ret.op = "none"
    /\ loader.constructed
    /\ LET r == LoadFooter(fs, yaml, loader)
       IN  ret' = [op |-> "load_footer", status |-> r.status,
                   value |-> r.value, arg |-> <<>>]
    /\ UNCHANGED <<fs, env, project_root, yaml, loader>>
    /\ UNCHANGED <<skillsVars, styleVars, docVars>>

load_resume ==
    /\ ret.op = "none"
    /\ loader.constructed
    /\ LET r == LoadResume(fs, yaml, loader)
       IN  ret' = [op |-> "load_resume", status |-> r.status,
                   value |-> r.value, arg |-> <<>>]
    /\ UNCHANGED <<fs, env, project_root, yaml, loader>>
    /\ UNCHANGED <<skillsVars, styleVars, docVars>>

get_available_profiles ==
    /\ ret.op = "none"
    /\ LET r == GetAvailableProfiles(fs, env)
       IN  \E listing \in Listings(r.names) :
              ret' = [op |-> "get_available_profiles", status |-> r.status,
                      value |-> listing, arg |-> <<>>]
    /\ UNCHANGED <<fs, env, project_root, yaml, loader>>
    /\ UNCHANGED <<skillsVars, styleVars, docVars>>


-----------------------------------------------------------------------------
(* resume.builder.ResumeBuilder *)

\* Path.mkdir(parents=True, exist_ok=True)
MkdirParents(f, p) ==
    IF Resolve(p) \in f.dirs THEN [status |-> "ok", fs |-> f]
    ELSE IF Resolve(p) \in f.files THEN [status |-> "FileExistsError", fs |-> f]
    ELSE IF Ancestors(Resolve(p)) \cap f.files # {}
    THEN [status |-> "NotADirectoryError", fs |-> f]
    ELSE [status |-> "ok", fs |-> [f EXCEPT !.dirs = @ \cup Ancestors(Resolve(p))]]

WriteTextNowhere(f, t, p, data) == [status |-> "ok", fs |-> f, texts |-> t]

\* Path.write_text(data): the file is created or replaced.  On POSIX the text
\* is written as it is.
WriteText(f, t, p, data) ==
    IF Resolve(p) \in f.dirs THEN [status |-> "IsADirectoryError", fs |-> f, texts |-> t]
    ELSE IF Parent(Resolve(p)) \in f.files
    THEN [status |-> "NotADirectoryError", fs |-> f, texts |-> t]
    ELSE IF Parent(Resolve(p)) \notin f.dirs
    THEN [status |-> "FileNotFoundError", fs |-> f, texts |-> t]
    ELSE [status |-> "ok",
          fs |-> [f EXCEPT !.files = @ \cup {Resolve(p)}],
          texts |-> [q \in DOMAIN t \cup {Resolve(p)} |->
                        IF q = Resolve(p) THEN data ELSE t[q]]]

\* get_templates_dir()
GetTemplatesDir == Join(GetProjectRoot, "templates")

\* ResumeBuilder.__init__: the default template_name
default_template_name == "resume.html.j2"

\* An argument that is None, a str or a Path.
NoneArg == [kind |-> "None", value |-> <<>>]

StrArg(p) == [kind |-> "str", value |-> p]

PathArg(p) == [kind |-> "Path", value |-> p]

\* if output_path: None and "" are false, every Path is true.
Truthy(a) == a.kind = "Path" \/ (a.kind = "str" /\ a.value # <<>>)

\* The expressions and the loop a template of this model can hold.
HeaderName == "{{ header.name }}"

HeaderTitle == "{{ header.title }}"

SummaryContent == "{{ summary.content }}"

SkillsLoop == "{% for s in skills.skills %}{{ s.name }}{% endfor %}"

FooterText == "{{ footer.text }}"

\* The template source as Jinja2 reads it: line ends become "\n" and one
\* line end at the end of the file is dropped (keep_trailing_newline=False).
JinjaSource(s) ==
    LET n == UniversalNewlines(s)
    IN  IF n # <<>> /\ n[Len(n)] = LF THEN SubSeq(n, 1, Len(n) - 1) ELSE n

\* What one piece of the template renders to.  render() gets header, summary,
\* experience and skills; footer is undefined there and renders as nothing.
RenderItem(item, resume) ==
    IF item = HeaderName THEN <<resume.header.name>>
    ELSE IF item = HeaderTitle THEN <<resume.header.title>>
    ELSE IF item = SummaryContent THEN <<resume.summary.content>>
    ELSE IF item = SkillsLoop
    THEN Concat([i \in 1..Len(resume.skills) |-> resume.skills[i].name])
    ELSE IF item = FooterText THEN <<>>
    ELSE <<item>>

\* template.render(header=..., summary=..., experience=..., skills=...)
Render(source, resume) ==
    Concat([i \in 1..Len(JinjaSource(source)) |->
               RenderItem(JinjaSource(source)[i], resume)])

BuilderResult(status, value, f, t) ==
    [status |-> status, value |-> value, fs |-> f, texts |-> t]

\* ResumeBuilder.build_html(resume, output_path)
BuildHtml(f, t, template_name, resume, output_path) ==
    LET template == Resolve(Join(GetTemplatesDir, template_name))
    IN  IF template \notin f.files
        THEN BuilderResult("TemplateNotFound", <<>>, f, t)
        ELSE IF ~Truthy(output_path)
        THEN BuilderResult("ok", Render(t[template], resume), f, t)
        ELSE LET output_file == PathOf(output_path.value)
                 made == MkdirParents(f, Parent(Resolve(output_file)))
                 written == WriteText(made.fs, t, output_file,
                                      Render(t[template], resume))
             IN  IF made.status # "ok"
                 THEN BuilderResult(made.status, <<>>, f, t)
                 ELSE IF written.status # "ok"
                 THEN BuilderResult(written.status, <<>>, made.fs, t)
                 ELSE BuilderResult("ok", Render(t[template], resume),
                                    written.fs, written.texts)

ResumeFileNameNoProfile(profile, format_type) ==
    IF format_type = "html" THEN "resume.html"
    ELSE IF format_type = "pdf" THEN "resume.pdf" ELSE "resume.docx"

\* f"{profile}_resume.{format_type}", for the profiles and formats of this
\* model (a file name is one path component and is not taken apart).
ResumeFileName(profile, format_type) ==
    IF profile = "p1"
    THEN IF format_type = "html" THEN "p1_resume.html"
         ELSE IF format_type = "pdf" THEN "p1_resume.pdf" ELSE "p1_resume.docx"
    ELSE IF format_type = "html" THEN "p2_resume.html"
         ELSE IF format_type = "pdf" THEN "p2_resume.pdf" ELSE "p2_resume.docx"

BuildToFileWritesFirst(f, t, e, template_name, resume, profile, format_type) ==
    LET dir == Mkdir(f, OutputDir(e))
        output_file == Join(OutputDir(e), ResumeFileName(profile, format_type))
        built == BuildHtml(dir.fs, t, template_name, resume, PathArg(output_file))
    IN  IF dir.status # "ok" THEN BuilderResult(dir.status, <<>>, f, t)
        ELSE IF built.status # "ok"
        THEN BuilderResult(built.status, <<>>, built.fs, built.texts)
        ELSE IF format_type = "html"
        THEN BuilderResult("ok", output_file, built.fs, built.texts)
        ELSE BuilderResult("ValueError", <<"Unsupported format: ", format_type>>,
                           built.fs, built.texts)

\* ResumeBuilder.build_to_file(resume, profile, format_type)
BuildToFile(f, t, e, template_name, resume, profile, format_type) ==
    LET dir == Mkdir(f, OutputDir(e))
        output_file == Join(OutputDir(e), ResumeFileName(profile, format_type))
        built == BuildHtml(dir.fs, t, template_name, resume, PathArg(output_file))
    IN  IF dir.status # "ok" THEN BuilderResult(dir.status, <<>>, f, t)
        ELSE IF format_type = "html"
        THEN IF built.status # "ok"
             THEN BuilderResult(built.status, <<>>, built.fs, built.texts)
             ELSE BuilderResult("ok", output_file, built.fs, built.texts)
        ELSE BuilderResult("ValueError", <<"Unsupported format: ", format_type>>,
                           dir.fs, t)

\* The arguments of a builder call, kept with its result.
BuilderArgs(resume, output_path, profile, format_type) ==
    [resume |-> resume, output_path |-> output_path, profile |-> profile,
     format_type |-> format_type]

-----------------------------------------------------------------------------
(* resume.pdf.PDFGenerator *)

\* No PDFGenerator method is running.
IdleGen ==
    [pc |-> "idle", op |-> "none", html_content |-> <<>>, html_file |-> <<>>,
     output_file |-> <<>>]

\* One Playwright operation: its name, its positional argument and, for
\* page.pdf, its keyword arguments: keys holds the names of those passed, and
\* a keyword that is not passed has its empty value.
NoKwargs ==
    [keys |-> {}, path |-> <<>>, format |-> "", print_background |-> FALSE,
     prefer_css_page_size |-> FALSE, margin |-> [top |-> "", bottom |-> ""]]

Call(op, arg) == [op |-> op, arg |-> arg, kwargs |-> NoKwargs]

\* page.pdf(path=str(output_file), format="Letter", print_background=True,
\*          prefer_css_page_size=True)
PdfCall(output_file) ==
    [op |-> "pdf", arg |-> <<>>,
     kwargs |-> [keys |-> {"path", "format", "print_background",
                           "prefer_css_page_size"},
                 path |-> output_file, format |-> "Letter",
                 print_background |-> TRUE, prefer_css_page_size |-> TRUE,
                 margin |-> NoKwargs.margin]]

Running(op, html_content, html_file, output_file) ==
    [pc |-> "launch", op |-> op, html_content |-> html_content,
     html_file |-> html_file, output_file |-> output_file]

\* What a call of a PDFGenerator method does before the browser starts: the
\* exception it raises there (the generator stays idle), or the run it starts.
Started(f, g) == [status |-> "ok", value |-> <<>>, fs |-> f, gen |-> g]

Stopped(status, value, f) ==
    [status |-> status, value |-> value, fs |-> f, gen |-> IdleGen]

\* Lines 28-29 of html_to_pdf
HtmlToPdf(f, op, html_content, output_path) ==
    LET output_file == PathOf(output_path.value)
        made == MkdirParents(f, Parent(Resolve(output_file)))
    IN  IF made.status # "ok" THEN Stopped(made.status, <<>>, f)
        ELSE Started(made.fs, Running(op, html_content, <<>>, output_file))

HtmlFileToPdfMkdirFirst(f, html_path, pdf_path) ==
    LET html_file == PathOf(html_path.value)
        output_file == PathOf(pdf_path.value)
        made == MkdirParents(f, Parent(Resolve(output_file)))
    IN  IF made.status # "ok" THEN Stopped(made.status, <<>>, f)
        ELSE IF ~Exists(made.fs, html_file)
        THEN Stopped("FileNotFoundError",
                     <<"HTML file not found: ", html_file>>, made.fs)
        ELSE Started(made.fs,
                     Running("html_file_to_pdf", <<>>, html_file, output_file))

\* Lines 53-58 of html_file_to_pdf
HtmlFileToPdf(f, html_path, pdf_path) ==
    LET html_file == PathOf(html_path.value)
        output_file == PathOf(pdf_path.value)
        made == MkdirParents(f, Parent(Resolve(output_file)))
    IN  IF ~Exists(f, html_file)
        THEN Stopped("FileNotFoundError",
                     <<"HTML file not found: ", html_file>>, f)
        ELSE IF made.status # "ok" THEN Stopped(made.status, <<>>, f)
        ELSE Started(made.fs,
                     Running("html_file_to_pdf", <<>>, html_file, output_file))

\* PDFGenerator.generate_pdf: build_html(resume), then html_to_pdf.
GeneratePdf(f, t, op, resume, output_path) ==
    LET built == BuildHtml(f, t, default_template_name, resume, NoneArg)
    IN  IF built.status # "ok" THEN Stopped(built.status, <<>>, f)
        ELSE HtmlToPdf(f, op, built.value, output_path)

\* get_output_dir(*args): the function takes no parameter, so a call with an
\* argument raises TypeError before the body runs.
GetOutputDirCalled(f, e, args) ==
    IF args # <<>> THEN [status |-> "TypeError", fs |-> f, path |-> <<>>]
    ELSE [status |-> Mkdir(f, OutputDir(e)).status,
          fs |-> Mkdir(f, OutputDir(e)).fs, path |-> OutputDir(e)]

\* PDFGenerator.build_resume_pdf(resume, profile, data_dir)
BuildResumePdf(f, t, e, resume, profile, data_dir) ==
    LET dir == GetOutputDirCalled(f, e, <<data_dir>>)
        pdf_path == Join(dir.path, ResumeFileName(profile, "pdf"))
    IN  IF dir.status # "ok" THEN Stopped(dir.status, <<>>, f)
        ELSE GeneratePdf(dir.fs, t, "build_resume_pdf", resume, PathArg(pdf_path))

NextStepWithoutWait(op, pc) ==
    IF pc = "launch" THEN "new_page"
    ELSE IF pc = "new_page"
    THEN (IF op = "html_file_to_pdf" THEN "goto" ELSE "set_content")
    ELSE IF pc = "set_content" THEN "pdf"
    ELSE IF pc = "wait_for_load_state" THEN "pdf"
    ELSE IF pc = "goto" THEN "pdf"
    ELSE IF pc = "pdf" THEN "close"
    ELSE "idle"

\* The statement after pc inside "with sync_playwright() as p": html_to_pdf
\* sets the content and waits, html_file_to_pdf goes to the file.
NextStep(op, pc) ==
    IF pc = "launch" THEN "new_page"
    ELSE IF pc = "new_page"
    THEN (IF op = "html_file_to_pdf" THEN "goto" ELSE "set_content")
    ELSE IF pc = "set_content" THEN "wait_for_load_state"
    ELSE IF pc = "wait_for_load_state" THEN "pdf"
    ELSE IF pc = "goto" THEN "pdf"
    ELSE IF pc = "pdf" THEN "close"
    ELSE "idle"

\* The arguments of a generator call, kept with its result.
GenArgs(html_content, html_path, output_path, profile, data_dir) ==
    [html_content |-> html_content, html_path |-> html_path,
     output_path |-> output_path, profile |-> profile, data_dir |-> data_dir]

\* A method was called with the arguments a: it raises at once, or the run
\* starts with no Playwright operation invoked yet.
Enter(op, r, a) ==
    /\ fs' = r.fs
    /\ gen' = r.gen
    /\ calls' = <<>>
    /\ ret' = IF r.status = "ok"
              THEN [op |-> "running", status |-> "none", value |-> <<>>, arg |-> a]
              ELSE [op |-> op, status |-> r.status, value |-> r.value, arg |-> a]
    /\ UNCHANGED <<yaml, env, project_root, loader, texts>>
    /\ UNCHANGED <<skillsVars, styleVars>>

\* One statement of the with block ran: the operation is invoked.
Step(pc, call) ==
    /\ gen.pc = pc
    /\ calls' = Append(calls, call)
    /\ gen' = IF NextStep(gen.op, pc) = "idle" THEN IdleGen
              ELSE [gen EXCEPT !.pc = NextStep(gen.op, pc)]
    /\ UNCHANGED <<yaml, env, project_root, loader>>
    /\ UNCHANGED <<skillsVars, styleVars>>

chromium_launch ==
    /\ Step("launch", Call("launch", <<>>))
    /\ UNCHANGED <<fs, texts, ret>>

new_page ==
    /\ Step("new_page", Call("new_page", <<>>))
    /\ UNCHANGED <<fs, texts, ret>>

set_content ==
    /\ Step("set_content", Call("set_content", gen.html_content))
    /\ UNCHANGED <<fs, texts, ret>>

wait_for_load_state ==
    /\ Step("wait_for_load_state", Call("wait_for_load_state", <<"networkidle">>))
    /\ UNCHANGED <<fs, texts, ret>>

\* page.goto(f"file://{html_file.absolute()}")
page_goto ==
    /\ Step("goto", Call("goto", <<"file://">> \o Resolve(gen.html_file)))
    /\ UNCHANGED <<fs, texts, ret>>

\* page.pdf(...): Chromium writes the PDF file.
page_pdf ==
    /\ Step("pdf", PdfCall(gen.output_file))
    /\ WriteText(fs, texts, gen.output_file, <<"%PDF">>).status = "ok"
    /\ fs' = WriteText(fs, texts, gen.output_file, <<"%PDF">>).fs
    /\ texts' = WriteText(fs, texts, gen.output_file, <<"%PDF">>).texts
    /\ UNCHANGED ret

\* browser.close(), the end of the with block, and the return.
browser_close ==
    /\ Step("close", Call("close", <<>>))
    /\ ret' = [ret EXCEPT !.op = gen.op, !.status = "ok",
                          !.value = IF gen.op = "build_resume_pdf"
                                    THEN gen.output_file ELSE <<>>]
    /\ UNCHANGED <<fs, texts>>

\* The operation at pc raises (no browser installed, a timeout, a path that
\* cannot be written): the with block is left and the exception propagates.
playwright_error ==
    /\ gen.pc # "idle"
    /\ gen' = IdleGen
    /\ ret' = [ret EXCEPT !.op = gen.op, !.status = "PlaywrightError"]
    /\ UNCHANGED <<fs, yaml, env, project_root, loader, texts, calls>>
    /\ UNCHANGED <<skillsVars, styleVars>>

-----------------------------------------------------------------------------
(* resume.cli: the commands *)

\* The --data-dir option (envvar="RESUME_DATA_DIR"): the value given on the
\* command line, else the variable when it is set and not empty, else None.
\* The values given in this model are non-empty paths.
DataDirOption(e, given) ==
    IF given.set THEN given
    ELSE IF EnvGiven(e.RESUME_DATA_DIR) THEN e.RESUME_DATA_DIR
    ELSE Unset

\* save_yaml(data, file_path): the parent directories are created and the
\* file is created or replaced.  What yaml.dump writes of a mapping of
\* strings, booleans and lists, safe_load reads back as an equal mapping.
SaveYaml(f, y, data, path) ==
    LET made == MkdirParents(f, Parent(Resolve(path)))
    IN  IF made.status # "ok" THEN [status |-> made.status, fs |-> f, yaml |-> y]
        ELSE IF Resolve(path) \in made.fs.dirs
        THEN [status |-> "IsADirectoryError", fs |-> made.fs, yaml |-> y]
        ELSE [status |-> "ok",
              fs |-> [made.fs EXCEPT !.files = @ \cup {Resolve(path)}],
              yaml |-> [q \in DOMAIN y \cup {Resolve(path)} |->
                           IF q = Resolve(path) THEN data ELSE y[q]]]

\* How a command ends: its exit code (1 for typer.Exit(1), 0 for a return),
\* what it did, and the disk it leaves.
Ended(code, outcome, f, y, t) ==
    [code |-> code, outcome |-> outcome, fs |-> f, yaml |-> y, texts |-> t]

\* The names of a skills list, lower-cased: existing_skills.
ExistingSkills(skills) == {Lower(skills[i].name) : i \in 1..Len(skills)}

\* new_skill
NewSkill(skill_name, category, proficiency) ==
    [keys |-> {"name", "category", "proficiency"}, name |-> skill_name,
     category |-> category, proficiency |-> proficiency]

AddSkillCaseSensitive(f, y, t, e, profile, skill_name, category, proficiency, data_dir_opt) ==
    LET d == GetDataDir(f, e, data_dir_opt)
        skills_file == Join(Join(d.path, "common"), "skills.yml")
        skills_data == LoadYaml(f, y, skills_file)
        saved == SaveYaml(f, y,
                     [skills_data.doc EXCEPT !.skills =
                         Append(@, NewSkill(skill_name, category, proficiency))],
                     skills_file)
    IN  IF d.status # "ok" THEN Ended(1, d.status, f, y, t)
        ELSE IF skills_data.status # "ok" THEN Ended(1, skills_data.status, f, y, t)
        ELSE IF skills_data.doc.null THEN Ended(1, "TypeError", f, y, t)
        ELSE IF "skills" \notin skills_data.doc.keys THEN Ended(1, "KeyError", f, y, t)
        ELSE IF \E i \in 1..Len(skills_data.doc.skills) :
                    skills_data.doc.skills[i].name = skill_name
        THEN Ended(0, "exists", f, y, t)
        ELSE IF saved.status # "ok" THEN Ended(1, saved.status, saved.fs, saved.yaml, t)
        ELSE Ended(0, "added", saved.fs, saved.yaml, t)

\* add_skill(profile, skill_name, category, proficiency, data_dir_opt): every
\* exception ends in typer.Exit(1).  The profile argument is not used.
AddSkill(f, y, t, e, profile, skill_name, category, proficiency, data_dir_opt) ==
    LET d == GetDataDir(f, e, data_dir_opt)
        skills_file == Join(Join(d.path, "common"), "skills.yml")
        skills_data == LoadYaml(f, y, skills_file)
        saved == SaveYaml(f, y,
                     [skills_data.doc EXCEPT !.skills =
                         Append(@, NewSkill(skill_name, category, proficiency))],
                     skills_file)
    IN  IF d.status # "ok" THEN Ended(1, d.status, f, y, t)
        ELSE IF skills_data.status # "ok" THEN Ended(1, skills_data.status, f, y, t)
        ELSE IF skills_data.doc.null THEN Ended(1, "TypeError", f, y, t)
        ELSE IF "skills" \notin skills_data.doc.keys THEN Ended(1, "KeyError", f, y, t)
        ELSE IF Lower(skill_name) \in ExistingSkills(skills_data.doc.skills)
        THEN Ended(0, "exists", f, y, t)
        ELSE IF saved.status # "ok" THEN Ended(1, saved.status, saved.fs, saved.yaml, t)
        ELSE Ended(0, "added", saved.fs, saved.yaml, t)

\* ResumeLoader(profile, **kwargs): __init__ takes the profile only, so a call
\* with a keyword argument raises TypeError before the body runs.
LoaderCalled(f, e, profile, kwargs) ==
    IF kwargs # {}
    THEN [status |-> "TypeError", value |-> <<>>, loader |-> NoLoader]
    ELSE NewLoader(f, e, profile)

\* fmt.lower() and fmt.strip() of one piece of format.split(","), for the
\* pieces of this model.
FormatOf(piece) ==
    IF piece \in {"html", "HTML", " html"} THEN "html"
    ELSE IF piece \in {"pdf", "PDF", " pdf"} THEN "pdf"
    ELSE IF piece \in {"both", "Both"} THEN "both"
    ELSE piece

\* The exceptions that are OSError: the PDF branches of build catch them.
OSErrors ==
    {"FileNotFoundError", "FileExistsError", "NotADirectoryError",
     "IsADirectoryError", "TemplateNotFound"}

\* A PDFGenerator call run to its end inside a command: it raised before the
\* browser started, the browser failed, or Chromium wrote the file.
PdfEnded(r, t, browser_ok) ==
    IF r.status # "ok" THEN [status |-> r.status, fs |-> r.fs, texts |-> t]
    ELSE IF ~browser_ok THEN [status |-> "PlaywrightError", fs |-> r.fs, texts |-> t]
    ELSE WriteText(r.fs, t, r.gen.output_file, <<"%PDF">>)

\* The state of the loop over formats: the exception that ended it (or "ok"),
\* the disk, and generated_files.
Progress(status, f, t, generated) ==
    [status |-> status, fs |-> f, texts |-> t, generated |-> generated]

\* The end of a PDF branch of build: the path is appended, or an OSError is
\* caught and the loop goes on, or the exception propagates.
PdfTurn(st, pdf, path) ==
    IF pdf.status = "ok"
    THEN Progress("ok", pdf.fs, pdf.texts, Append(st.generated, path))
    ELSE IF pdf.status \in OSErrors
    THEN Progress("ok", pdf.fs, pdf.texts, st.generated)
    ELSE Progress(pdf.status, pdf.fs, pdf.texts, st.generated)

\* Line 205 of build, after build_to_file returned to_file: build_html once more.
HtmlAgain(st, to_file, again) ==
    IF again.status # "ok"
    THEN Progress(again.status, again.fs, again.texts, st.generated)
    ELSE Progress("ok", again.fs, again.texts, Append(st.generated, to_file.value))

\* Lines 199-207 of build, without --output.
HtmlTurn(st, to_file, resume) ==
    IF to_file.status # "ok"
    THEN Progress(to_file.status, to_file.fs, to_file.texts, st.generated)
    ELSE HtmlAgain(st, to_file,
                   BuildHtml(to_file.fs, to_file.texts, default_template_name,
                             resume, PathArg(to_file.value)))

\* Lines 226-239 of build: build_to_file, then build_resume_pdf.
BothTurn(st, to_file, e, resume, profile, browser_ok) ==
    IF to_file.status # "ok"
    THEN Progress(to_file.status, to_file.fs, to_file.texts, st.generated)
    ELSE PdfTurn(Progress("ok", to_file.fs, to_file.texts,
                          Append(st.generated, to_file.value)),
                 PdfEnded(BuildResumePdf(to_file.fs, to_file.texts, e, resume,
                                         profile, NoneArg),
                          to_file.texts, browser_ok),
                 Join(OutputDir(e), ResumeFileName(profile, "pdf")))

\* One turn of the loop of build, for the format fmt.
BuildFormat(fmt, st, e, resume, profile, output, browser_ok) ==
    IF fmt = "html"
    THEN IF Truthy(output)
         THEN Progress("ok", st.fs, st.texts,
                       Append(st.generated, PathOf(output.value)))
         ELSE HtmlTurn(st, BuildToFile(st.fs, st.texts, e, default_template_name,
                                       resume, profile, "html"),
                       resume)
    ELSE IF fmt = "pdf"
    THEN IF Truthy(output)
         THEN PdfTurn(st, PdfEnded(GeneratePdf(st.fs, st.texts, "generate_pdf",
                                               resume, PathArg(output.value)),
                                   st.texts, browser_ok),
                      PathOf(output.value))
         ELSE PdfTurn(st, PdfEnded(BuildResumePdf(st.fs, st.texts, e, resume,
                                                  profile, NoneArg),
                                   st.texts, browser_ok),
                      Join(OutputDir(e), ResumeFileName(profile, "pdf")))
    ELSE IF fmt = "both"
    THEN BothTurn(st, BuildToFile(st.fs, st.texts, e, default_template_name,
                                  resume, profile, "html"),
                  e, resume, profile, browser_ok)
    ELSE st

\* The loop of build over format.lower().split(","): the first exception
\* that is not caught ends it.
RECURSIVE BuildFormats(_, _, _, _, _, _, _)
BuildFormats(formats, st, e, resume, profile, output, browser_ok) ==
    IF formats = <<>> \/ st.status # "ok" THEN st
    ELSE BuildFormats(Tail(formats),
                      BuildFormat(FormatOf(Head(formats)), st, e, resume,
                                  profile, output, browser_ok),
                      e, resume, profile, output, browser_ok)

\* How build and analyze end: as Ended, and whether load_resume returned.
EndedAfterLoad(code, outcome, loaded, f, y, t) ==
    [code |-> code, outcome |-> outcome, loaded |-> loaded,
     fs |-> f, yaml |-> y, texts |-> t]

\* Lines 246-257 of build: the loop ended, done is what it left.
BuildEnd(done, y) ==
    IF done.status # "ok"
    THEN EndedAfterLoad(1, done.status, TRUE, done.fs, y, done.texts)
    ELSE EndedAfterLoad(0, "generated", TRUE, done.fs, y, done.texts)

\* Lines 188-244 of build, with the loader made.
BuildLoaded(resume, f, y, t, e, profile, format, output, browser_ok) ==
    IF resume.status # "ok" THEN EndedAfterLoad(1, resume.status, FALSE, f, y, t)
    ELSE BuildEnd(BuildFormats(format, Progress("ok", f, t, <<>>), e,
                               resume.value, profile, output, browser_ok), y)

\* Line 187 of build and of analyze: what ResumeLoader(...) gave.
BuildMade(made, f, y, t, e, profile, format, output, browser_ok) ==
    IF made.status # "ok" THEN EndedAfterLoad(1, made.status, FALSE, f, y, t)
    ELSE BuildLoaded(LoadResume(f, y, made.loader), f, y, t, e, profile,
                     format, output, browser_ok)

\* build(profile, format, output, data_dir): every exception that reaches the
\* outer try ends in typer.Exit(1).
Build(f, y, t, e, profile, format, output, data_dir, browser_ok) ==
    BuildMade(LoaderCalled(f, e, profile, {"data_dir"}), f, y, t, e, profile,
              format, output, browser_ok)

\* Lines 78-157 of analyze: the job description is analysed by the language
\* model (it answers or raises) and the skills are compared.
AnalyzeLoaded(resume, job_desc, f, y, t, model_ok) ==
    IF resume.status # "ok" THEN EndedAfterLoad(1, resume.status, FALSE, f, y, t)
    ELSE IF job_desc.status # "ok"
    THEN EndedAfterLoad(1, job_desc.status, TRUE, f, y, t)
    ELSE IF ~model_ok THEN EndedAfterLoad(1, "ModelError", TRUE, f, y, t)
    ELSE EndedAfterLoad(0, "analyzed", TRUE, f, y, t)

AnalyzeMade(made, f, y, t, model_ok) ==
    IF made.status # "ok" THEN EndedAfterLoad(1, made.status, FALSE, f, y, t)
    ELSE AnalyzeLoaded(LoadResume(f, y, made.loader),
                       LoadJobDescription(f, t, made.loader), f, y, t, model_ok)

\* analyze(profile, data_dir): every exception ends in typer.Exit(1).
Analyze(f, y, t, e, profile, data_dir, model_ok) ==
    AnalyzeMade(LoaderCalled(f, e, profile, {"data_dir"}), f, y, t, model_ok)

\* str.strip(): the whitespace at both ends goes.
IsSpace(c) == c \in {" ", LF, CR}

Strip(s) ==
    IF \A i \in 1..Len(s) : IsSpace(s[i]) THEN <<>>
    ELSE SubSeq(s, CHOOSE i \in 1..Len(s) :
                       ~IsSpace(s[i]) /\ \A j \in 1..(i - 1) : IsSpace(s[j]),
                   CHOOSE i \in 1..Len(s) :
                       ~IsSpace(s[i]) /\ \A j \in (i + 1)..Len(s) : IsSpace(s[j]))

\* The disk while generate_profile writes: the first exception stops it.
Disk(status, f, y, t) == [status |-> status, fs |-> f, yaml |-> y, texts |-> t]

\* profile_dir.mkdir(parents=True, exist_ok=True)
ThenMkdir(st, p) ==
    IF st.status # "ok" THEN st
    ELSE Disk(MkdirParents(st.fs, p).status, MkdirParents(st.fs, p).fs,
              st.yaml, st.texts)

Saved(saved, t) == Disk(saved.status, saved.fs, saved.yaml, t)

\* save_yaml(data, profile_dir / name)
ThenSaveYaml(st, data, path) ==
    IF st.status # "ok" THEN st
    ELSE Saved(SaveYaml(st.fs, st.yaml, data, path), st.texts)

Written(written, y) == Disk(written.status, written.fs, y, written.texts)

\* (profile_dir / name).write_text(data)
ThenWriteText(st, path, data) ==
    IF st.status # "ok" THEN st
    ELSE Written(WriteText(st.fs, st.texts, path, data), st.yaml)

\* header_data, summary_data, experiences_data, skills_data
HeaderData(result) ==
    Doc({"title"}, "", result.header_title, NoContact, <<>>, <<>>)

SummaryData(result) ==
    [Doc({"content"}, "", "", NoContact, <<>>, <<>>)
        EXCEPT !.content = result.summary]

ExperiencesData(result) ==
    Doc({"experiences"}, "", "", NoContact,
        [i \in 1..Len(result.experiences) |->
            [result.experiences[i] EXCEPT
                !.keys = {"company", "title", "location", "start_date",
                          "end_date", "current", "achievements",
                          "technologies"}]],
        <<>>)

SkillsData(result) ==
    Doc({"skills"}, "", "", NoContact, <<>>,
        [i \in 1..Len(result.skills) |->
            [result.skills[i] EXCEPT
                !.keys = {"name", "category", "proficiency"}]])

\* generate_profile, "Write profile files": the directory, the four YAML
\* files, job.txt and cover_letter.md, in this order.
WriteProfile(f, y, t, profile_dir, result, job_description) ==
    ThenWriteText(
      ThenWriteText(
        ThenSaveYaml(
          ThenSaveYaml(
            ThenSaveYaml(
              ThenSaveYaml(
                ThenMkdir(Disk("ok", f, y, t), profile_dir),
                HeaderData(result), Join(profile_dir, "header.yml")),
              SummaryData(result), Join(profile_dir, "summary.yml")),
            ExperiencesData(result), Join(profile_dir, "experience.yml")),
          SkillsData(result), Join(profile_dir, "skills.yml")),
        Join(profile_dir, "job.txt"), job_description),
      Join(profile_dir, "cover_letter.md"), result.cover_letter_md)

\* How generate_profile ends: as a command ends, and whether the agents
\* were run (ProfileGenerator(...) was reached).
Generated(code, outcome, agents_run, f, y, t) ==
    [code |-> code, outcome |-> outcome, agents_run |-> agents_run,
     fs |-> f, yaml |-> y, texts |-> t]

\* generate_profile after the files were written: with auto_build a line
\* that names the build command is printed, and nothing is built.
GenerateWritten(w, auto_build) ==
    IF w.status # "ok"
    THEN Generated(1, w.status, TRUE, w.fs, w.yaml, w.texts)
    ELSE Generated(0, "written", TRUE, w.fs, w.yaml, w.texts)

\* experience_file
ExperienceFile(data_dir_path, cv_file) ==
    IF cv_file.kind # "None" THEN cv_file.value
    ELSE Join(Join(data_dir_path, "common"), "experience.yml")

GenerateFromMkdirFirst(f, y, t, experience_file, job_description, data_dir_path, profile_name, auto_build, skip_confirmation, result, confirm) ==
    IF ~Exists(f, experience_file)
    THEN Generated(1, "experience file not found", FALSE, f, y, t)
    ELSE IF Resolve(experience_file) \in f.dirs
    THEN Generated(1, "IsADirectoryError", FALSE, f, y, t)
    ELSE IF ~result.ok THEN Generated(1, "agents failed", TRUE, f, y, t)
    ELSE IF ~skip_confirmation /\ confirm = "abort"
    THEN Generated(1, "Abort", TRUE,
                   MkdirParents(f, ProfileDir(data_dir_path, profile_name)).fs,
                   y, t)
    ELSE IF ~skip_confirmation /\ confirm = "no"
    THEN Generated(0, "cancelled", TRUE,
                   MkdirParents(f, ProfileDir(data_dir_path, profile_name)).fs,
                   y, t)
    ELSE GenerateWritten(
             WriteProfile(f, y, t, ProfileDir(data_dir_path, profile_name),
                          result, job_description),
             auto_build)

\* generate_profile from the experience file on: the file is there, it is
\* loaded, the agents run, the result is shown, the user is asked (typer.
\* confirm raises Abort when there is no answer), and the files are written.
GenerateFrom(f, y, t, experience_file, job_description, data_dir_path, profile_name, auto_build, skip_confirmation, result, confirm) ==
    IF ~Exists(f, experience_file)
    THEN Generated(1, "experience file not found", FALSE, f, y, t)
    ELSE IF Resolve(experience_file) \in f.dirs
    THEN Generated(1, "IsADirectoryError", FALSE, f, y, t)
    ELSE IF ~result.ok THEN Generated(1, "agents failed", TRUE, f, y, t)
    ELSE IF ~skip_confirmation /\ confirm = "abort"
    THEN Generated(1, "Abort", TRUE, f, y, t)
    ELSE IF ~skip_confirmation /\ confirm = "no"
    THEN Generated(0, "cancelled", TRUE, f, y, t)
    ELSE GenerateWritten(
             WriteProfile(f, y, t, ProfileDir(data_dir_path, profile_name),
                          result, job_description),
             auto_build)

\* generate_profile once the job file was read: the description is not
\* blank, and the data directory is found.
GenerateRead(f, y, t, job_description, d, profile_name, cv_file, auto_build, skip_confirmation, result, confirm) ==
    IF Strip(job_description) = <<>>
    THEN Generated(1, "job description empty", FALSE, f, y, t)
    ELSE IF d.status # "ok" THEN Generated(1, d.status, FALSE, f, y, t)
    ELSE GenerateFrom(f, y, t, ExperienceFile(d.path, cv_file),
                      job_description, d.path, profile_name, auto_build,
                      skip_confirmation, result, confirm)

\* generate_profile(profile_name, job_file, cv_file, auto_build,
\* skip_confirmation, data_dir): what the agents return and what the user
\* answers are result and confirm.  Every exception ends in typer.Exit(1).
GenerateProfile(f, y, t, e, profile_name, job_file, cv_file, auto_build, skip_confirmation, data_dir, result, confirm) ==
    IF ~Exists(f, job_file)
    THEN Generated(1, "job file not found", FALSE, f, y, t)
    ELSE IF Resolve(job_file) \in f.dirs
    THEN Generated(1, "IsADirectoryError", FALSE, f, y, t)
    ELSE GenerateRead(f, y, t, ReadText(t, job_file), GetDataDir(f, e, data_dir),
                      profile_name, cv_file, auto_build, skip_confirmation,
                      result, confirm)

-----------------------------------------------------------------------------
(* Inputs and specifications *)

MaxResume == 1
MaxRequired == 3
MaxPreferred == 1
LongLen == 2001
MaxFrags == 2
SmallMaxLength == 12
MaxExperiences == 2
MaxAchievements == 2

default_max_bullet_length == 120

SeqsUpTo(S, n) == UNION {[1..k -> S] : k \in 0..n}

SkillNames == {<<"G","o">>, <<"g","o">>, <<"C">>}

\* A long required list: nfirst entries "Go" followed by entries "C".
LongList(nfirst) ==
    [i \in 1..LongLen |-> IF i <= nfirst THEN <<"G","o">> ELSE <<"C">>]

LongLists == {LongList(1), LongList(LongLen - 1)}

\* StyleRules(): the field defaults.
DefaultRules ==
    [no_em_dashes |-> TRUE, no_en_dashes |-> FALSE,
     bullet_end_punctuation |-> <<>>,
     max_bullet_length |-> default_max_bullet_length,
     action_verb_start |-> TRUE, no_first_person |-> TRUE,
     quantify_achievements |-> TRUE, no_buzzwords |-> default_buzzwords]

RulesSet ==
    [no_em_dashes : BOOLEAN, no_en_dashes : BOOLEAN,
     bullet_end_punctuation : {<<>>, <<".">>},
     max_bullet_length : {SmallMaxLength, default_max_bullet_length},
     action_verb_start : BOOLEAN, no_first_person : BOOLEAN,
     quantify_achievements : {TRUE},
     no_buzzwords : {<<>>, << <<"n","i","n","j","a">>, <<"N","i","n">> >>}]

Fragments ==
    { <<"L","e","d"," ">>,
      <<"w","o","r","k","e","d"," ","o","n"," ">>,
      <<"W","o","r","k","e","d"," ","o","n"," ">>,
      <<"m","y"," ">>,
      <<"a","r","m","y"," ">>,
      <<"N","i","n","j","a">>,
      <<EmDash>>,
      <<EnDash>>,
      <<".">> }

\* Bullets: up to MaxFrags fragments, one after the other.
Bullets == {Concat(parts) : parts \in SeqsUpTo(Fragments, MaxFrags)}

ContentBullets ==
    { <<"L","e","d"," ">>,
      <<"w","o","r","k","e","d"," ","o","n"," ",EmDash>> }

ContentExperiences ==
    {[has_achievements |-> FALSE, achievements |-> <<>>]}
    \cup {[has_achievements |-> TRUE, achievements |-> a] :
            a \in SeqsUpTo(ContentBullets, MaxAchievements)}

NoContent == [has_experiences |-> FALSE, experiences |-> <<>>]

Contents ==
    {NoContent}
    \cup {[has_experiences |-> TRUE, experiences |-> e] :
            e \in SeqsUpTo(ContentExperiences, MaxExperiences)}

ContentRules ==
    {DefaultRules,
     [DefaultRules EXCEPT !.no_em_dashes = FALSE],
     [DefaultRules EXCEPT !.action_verb_start = FALSE]}

(* Inputs of resume.utils and resume.loader *)

MaxEntries == 2

ProjectRoots == {<<"/", "h", "resume-as-code">>, <<"/", "opt", "tool">>}

Closure(paths) == UNION {Ancestors(p) : p \in paths}

\* ~/.local/share/resume-as-code
HomeShare == Home \o <<".local", "share", "resume-as-code">>

XdgHome == <<"/", "x">>

\* A data directory outside every repository: ~/d
DataD == Join(Home, "d")

CheckoutData == <<"/", "h", "resume-as-code", "data">>

OptionalDirs(pr) ==
    {Join(pr, ".git"), Join(pr, "output"), HomeShare, Join(HomeShare, ".git"),
     Join(XdgHome, "resume-as-code"), Join(Join(XdgHome, "resume-as-code"), ".git"),
     DataD, Join(DataD, "output")}

OptionalFiles(pr) == {Join(pr, "output"), Join(DataD, "output")}

\* File systems: the home and the installed package are there, every
\* directory has its parent, and no path is both a file and a directory.
FileSystems(pr) ==
    {f \in [dirs : {Closure({Home, pr} \cup d) : d \in SUBSET OptionalDirs(pr)},
            files : SUBSET OptionalFiles(pr)] :
        \A p \in f.files : p \notin f.dirs /\ Parent(p) \in f.dirs}

NoYaml == [p \in {} |-> NullDoc]

Environments ==
    [RESUME_DATA_DIR : {Unset, Given(<<>>), Given(<<"~", "d">>), Given(CheckoutData)},
     XDG_DATA_HOME : {Unset, Given(<<>>), Given(XdgHome)}]

NoText == [p \in {} |-> <<>>]

IdleDocs ==
    /\ texts = NoText
    /\ calls = <<>>
    /\ gen = IdleGen

IdleFiles ==
    /\ fs = [dirs |-> {Root}, files |-> {}]
    /\ yaml = NoYaml
    /\ env = [RESUME_DATA_DIR |-> Unset, XDG_DATA_HOME |-> Unset]
    /\ project_root = Root
    /\ loader = NoLoader
    /\ ret = NoRet
    /\ IdleDocs

IdleSkills ==
    /\ resume_skills = <<>>
    /\ required_skills = <<>>
    /\ preferred_skills = <<>>
    /\ analysis = NoAnalysis

IdleStyle ==
    /\ rules = DefaultRules
    /\ bullet = <<>>
    /\ content = NoContent
    /\ style_ret = NoStyleRet

InitSkills ==
    /\ resume_skills \in SeqsUpTo(SkillNames, MaxResume)
    /\ required_skills \in SeqsUpTo(SkillNames, MaxRequired)
    /\ preferred_skills \in SeqsUpTo(SkillNames, MaxPreferred)
    /\ analysis = NoAnalysis
    /\ IdleStyle
    /\ IdleFiles

\* The same calls, and calls with a long required_skills list as well.
InitSkillsLong ==
    /\ resume_skills \in SeqsUpTo(SkillNames, MaxResume)
    /\ required_skills \in SeqsUpTo(SkillNames, MaxRequired) \cup LongLists
    /\ preferred_skills \in SeqsUpTo(SkillNames, MaxPreferred)
    /\ analysis = NoAnalysis
    /\ IdleStyle
    /\ IdleFiles

NextSkills == compare_skills \/ NewSkillsCall

SpecSkills == InitSkills /\ [][NextSkills]_vars

SpecSkillsLong == InitSkillsLong /\ [][NextSkills]_vars

\* A rules object with a bullet to validate, or with a content dictionary.
InitStyle ==
    /\ \/ /\ rules \in RulesSet
          /\ bullet \in Bullets
          /\ content = NoContent
       \/ /\ rules \in ContentRules
          /\ bullet = <<>>
          /\ content \in Contents
    /\ style_ret = NoStyleRet
    /\ IdleSkills
    /\ IdleFiles

NextStyle == validate_bullet \/ validate_content \/ StyleReturn

SpecStyle == InitStyle /\ [][NextStyle]_vars

InitDirs ==
    /\ project_root \in ProjectRoots
    /\ fs \in FileSystems(project_root)
    /\ env \in Environments
    /\ yaml = NoYaml
    /\ loader = NoLoader
    /\ ret = NoRet
    /\ IdleDocs
    /\ IdleSkills
    /\ IdleStyle

NextDirs == get_data_dir \/ get_output_dir \/ UtilsReturn

SpecDirs == InitDirs /\ [][NextDirs]_vars

HeaderNames == {"Ann", "Bob"}

HeaderTitles == {"SRE", "QE"}

Contacts ==
    {[keys |-> {"email"}, email |-> "a@x.io", phone |-> ""],
     [keys |-> {"email", "phone"}, email |-> "b@x.io", phone |-> "555"],
     [keys |-> {"phone"}, email |-> "", phone |-> "555"]}

\* The documents a header.yml can hold: empty, or a mapping with some of the
\* keys name, title and contact.
HeaderDocs ==
    {NullDoc}
    \cup {Doc(k, n, t, c, <<>>, <<>>) :
            k \in SUBSET {"name", "title", "contact"},
            n \in HeaderNames \cup {""}, t \in HeaderTitles \cup {""},
            c \in Contacts \cup {NoContact}}

WellFormedHeaderDoc(d) ==
    \/ d.null
    \/ /\ (d.name = "") <=> ("name" \notin d.keys)
       /\ (d.title = "") <=> ("title" \notin d.keys)
       /\ (d.contact = NoContact) <=> ("contact" \notin d.keys)

ExperienceEntries ==
    {[keys |-> {"company", "title", "start_date"},
      company |-> "Acme", title |-> "SRE",
      start_date |-> <<"2","0","1","9","-","0","3","-","0","1">>,
      end_date |-> <<>>, current |-> FALSE, achievements |-> <<>>],
     [keys |-> {"company", "title", "start_date", "end_date", "current"},
      company |-> "Bolt", title |-> "QE",
      start_date |-> <<"2","0","1","5","-","0","6","-","1","5">>,
      end_date |-> <<"2","0","1","9","-","0","2","-","2","8">>,
      current |-> FALSE, achievements |-> <<>>],
     [keys |-> {"company", "title", "start_date", "end_date", "current",
                "achievements"},
      company |-> "Core", title |-> "Dev",
      start_date |-> <<"2","0","1","2","-","0","1","-","0","1">>,
      end_date |-> <<>>, current |-> FALSE,
      achievements |-> << <<"L","e","d"," ">> >>],
     [keys |-> {"company", "title", "start_date", "end_date", "current"},
      company |-> "Dyn", title |-> "Ops",
      start_date |-> <<"2","0","2","0","-","0","1","-","0","1">>,
      end_date |-> <<"2","0","2","1","-","1","2","-","3","1">>,
      current |-> TRUE, achievements |-> <<>>],
     [keys |-> {"company", "title", "start_date", "current"},
      company |-> "Echo", title |-> "Lead",
      start_date |-> <<"2","0","2","2","-","0","1","-","0","1">>,
      end_date |-> <<>>, current |-> TRUE, achievements |-> <<>>]}

SkillEntries ==
    {[keys |-> {"name", "category"}, name |-> <<"G","o">>,
      category |-> "Languages", proficiency |-> ""],
     [keys |-> {"name", "proficiency"}, name |-> <<"A","W","S">>,
      category |-> "", proficiency |-> "Expert"],
     [keys |-> {"name"}, name |-> <<"g","i","t">>,
      category |-> "", proficiency |-> ""]}

\* The documents an experience.yml / skills.yml can hold: a mapping without
\* the list, or with a list of entries.
ExperienceDocs ==
    {Doc({}, "", "", NoContact, <<>>, <<>>)}
    \cup {Doc({"experiences"}, "", "", NoContact, x, <<>>) :
            x \in SeqsUpTo(ExperienceEntries, MaxEntries)}

SkillsDocs ==
    {Doc({}, "", "", NoContact, <<>>, <<>>)}
    \cup {Doc({"skills"}, "", "", NoContact, <<>>, x) :
            x \in SeqsUpTo(SkillEntries, MaxEntries)}

\* A data directory ~/d with the profiles p1 and p2, where common/<name> and
\* profiles/p1/<name> each are missing or hold one of docs.
DataDirWith(name, docs) ==
    /\ project_root = <<"/", "opt", "tool">>
    /\ env = [RESUME_DATA_DIR |-> Given(<<"~", "d">>), XDG_DATA_HOME |-> Unset]
    /\ \E files \in SUBSET {Join(Join(DataD, "common"), name),
                            Join(ProfileDir(DataD, "p1"), name)} :
          /\ fs = [dirs |-> Closure({project_root, Join(DataD, "common"),
                                     ProfileDir(DataD, "p1"),
                                     ProfileDir(DataD, "p2")}),
                   files |-> files]
          /\ yaml \in [files -> docs]
    /\ texts = NoText

\* Data directories in several places, with or without the profiles.
ProfileDirs(pr) ==
    {Join(pr, ".git"), ProfileDir(Join(pr, "data"), "p1"),
     Join(DataD, "profiles"), ProfileDir(DataD, "p1"), ProfileDir(DataD, "p2"),
     ProfileDir(CheckoutData, "p1")}

GoodHeaderDoc ==
    Doc({"name", "title", "contact"}, "Ann", "SRE",
        [keys |-> {"email"}, email |-> "a@x.io", phone |-> ""], <<>>, <<>>)

SummaryDocs ==
    {Doc({}, "", "", NoContact, <<>>, <<>>),
     [Doc({"content"}, "", "", NoContact, <<>>, <<>>)
        EXCEPT !.content = "Leads reliability teams"]}

FooterDocs ==
    {NullDoc,
     [Doc({"link_text"}, "", "", NoContact, <<>>, <<>>)
        EXCEPT !.link_text = "View on GitHub"],
     [Doc({"text"}, "", "", NoContact, <<>>, <<>>)
        EXCEPT !.text = "Built with Resume as Code"],
     [Doc({"text", "link_text"}, "", "", NoContact, <<>>, <<>>)
        EXCEPT !.text = "Built with Resume as Code",
               !.link_text = "View on GitHub"]}

\* What job.txt can hold: nothing, one line, lines that end in "\n", in
\* "\r\n" or in "\r".
JobTexts ==
    {<<>>, <<"S", "R", "E">>, <<"S", "R", "E", LF, "G", "o", LF>>,
     <<"S", "R", "E", CR, LF, "G", "o">>, <<"S", "R", "E", CR>>}

\* The files of a data directory ~/d with the profiles p1 and p2.
HeaderYml == Join(Join(DataD, "common"), "header.yml")

SummaryYml == Join(ProfileDir(DataD, "p1"), "summary.yml")

ExperienceYml == Join(Join(DataD, "common"), "experience.yml")

SkillsYml == Join(Join(DataD, "common"), "skills.yml")

FooterYml == Join(Join(DataD, "common"), "footer.yml")

JobTxt == Join(ProfileDir(DataD, "p1"), "job.txt")

ReadmeTxt == Join(Join(DataD, "profiles"), "readme.txt")

\* A data directory ~/d where each file of a whole resume is there or not.
ResumeData ==
    /\ project_root = <<"/", "opt", "tool">>
    /\ env = [RESUME_DATA_DIR |-> Given(<<"~", "d">>), XDG_DATA_HOME |-> Unset]
    /\ \E files \in SUBSET {HeaderYml, SummaryYml, ExperienceYml, SkillsYml,
                            FooterYml, JobTxt, ReadmeTxt} :
          /\ fs = [dirs |-> Closure({project_root, Join(DataD, "common"),
                                     ProfileDir(DataD, "p1"),
                                     ProfileDir(DataD, "p2")}),
                   files |-> files]
          /\ \E summary \in SummaryDocs, footer \in FooterDocs :
                yaml = [p \in files \ {JobTxt, ReadmeTxt} |->
                          IF p = HeaderYml THEN GoodHeaderDoc
                          ELSE IF p = SummaryYml THEN summary
                          ELSE IF p = ExperienceYml
                          THEN Doc({"experiences"}, "", "", NoContact,
                                   <<CHOOSE x \in ExperienceEntries :
                                        x.company = "Acme">>, <<>>)
                          ELSE IF p = SkillsYml
                          THEN Doc({"skills"}, "", "", NoContact, <<>>,
                                   <<CHOOSE x \in SkillEntries :
                                        x.name = <<"G","o">> >>)
                          ELSE footer]
          /\ \E job \in JobTexts : texts = [p \in files \cap {JobTxt} |-> job]

InitLoader ==
    /\ \/ /\ project_root \in ProjectRoots
          /\ env \in [RESUME_DATA_DIR : {Unset, Given(<<"~", "d">>), Given(CheckoutData)},
                      XDG_DATA_HOME : {Unset}]
          /\ \E d \in SUBSET ProfileDirs(project_root) :
                fs = [dirs |-> Closure({Home, project_root} \cup d), files |-> {}]
          /\ yaml = NoYaml
          /\ texts = NoText
       \/ DataDirWith("header.yml", {d \in HeaderDocs : WellFormedHeaderDoc(d)})
       \/ DataDirWith("experience.yml", ExperienceDocs)
       \/ DataDirWith("skills.yml", SkillsDocs)
       \/ ResumeData
    /\ loader = NoLoader
    /\ ret = NoRet
    /\ calls = <<>>
    /\ gen = IdleGen
    /\ IdleSkills
    /\ IdleStyle

NextLoader ==
    \/ ResumeLoader
    \/ load_header
    \/ load_experience
    \/ load_skills
    \/ load_job_description
    \/ load_footer
    \/ load_resume
    \/ get_available_profiles
    \/ UtilsReturn

SpecLoader == InitLoader /\ [][NextLoader]_vars

(* Inputs of resume.builder *)

BuilderRoot == <<"/", "opt", "tool">>

TemplateFile == Join(Join(BuilderRoot, "templates"), default_template_name)

TemplateTexts ==
    {<<"<h1>", HeaderName, "</h1>">>,
     <<"<h1>", HeaderName, "</h1>", CR, LF, "<p>", SummaryContent, "</p>",
       SkillsLoop, FooterText, LF>>}

\* Resume models: what load_resume returns.
Resumes ==
    {[header |-> [name |-> "Ann", title |-> "SRE",
                  contact |-> [email |-> "a@x.io", phone |-> None]],
      summary |-> [content |-> "Leads reliability teams"],
      experience |-> <<>>,
      skills |-> <<ToSkill(CHOOSE x \in SkillEntries : x.name = <<"G","o">>),
                   ToSkill(CHOOSE x \in SkillEntries : x.name = <<"A","W","S">>)>>,
      footer |-> NoFooter],
     [header |-> [name |-> "Bob", title |-> "QE",
                  contact |-> [email |-> "b@x.io", phone |-> "555"]],
      summary |-> [content |-> "Tests everything"],
      experience |-> <<>>,
      skills |-> <<>>,
      footer |-> [none |-> FALSE, text |-> "Built with Resume as Code",
                  link_text |-> None]]}

Formats == {"html", "pdf", "docx"}

\* The output_path arguments of build_html: None, "", "out.html", a Path below
\* directories that do not exist yet, and the Path of the output directory.
OutputPaths ==
    {NoneArg, StrArg(<<>>), StrArg(<<"out.html">>),
     PathArg(Home \o <<"new", "sub", "r.html">>),
     PathArg(Join(BuilderRoot, "output"))}

BuilderDirs ==
    {Join(BuilderRoot, "templates"), Join(BuilderRoot, "output"), DataD}

BuilderFiles ==
    {TemplateFile, Join(BuilderRoot, "output"),
     Join(Join(BuilderRoot, "output"), "p1_resume.docx"),
     Join(Home, "new")}

\* builder.build_html(resume, output_path), for a ResumeBuilder()
build_html ==
    /\ ret.op = "none"
    /\ \E resume \in Resumes, output_path \in OutputPaths :
          LET r == BuildHtml(fs, texts, default_template_name, resume, output_path)
          IN  /\ fs' = r.fs
              /\ texts' = r.texts
              /\ ret' = [op |-> "build_html", status |-> r.status,
                         value |-> r.value,
                         arg |-> BuilderArgs(resume, output_path, "", "")]
    /\ UNCHANGED <<yaml, env, project_root, loader, calls, gen>>
    /\ UNCHANGED <<skillsVars, styleVars>>

\* builder.build_to_file(resume, profile, format_type), for a ResumeBuilder()
build_to_file ==
    /\ ret.op = "none"
    /\ \E resume \in Resumes, profile \in Profiles, format_type \in Formats :
          LET r == BuildToFile(fs, texts, env, default_template_name, resume,
                               profile, format_type)
          IN  /\ fs' = r.fs
              /\ texts' = r.texts
              /\ ret' = [op |-> "build_to_file", status |-> r.status,
                         value |-> r.value,
                         arg |-> BuilderArgs(resume, NoneArg, profile, format_type)]
    /\ UNCHANGED <<yaml, env, project_root, loader, calls, gen>>
    /\ UNCHANGED <<skillsVars, styleVars>>

InitBuilder ==
    /\ project_root = BuilderRoot
    /\ env \in [RESUME_DATA_DIR : {Unset, Given(<<"~", "d">>)},
                XDG_DATA_HOME : {Unset}]
    /\ \E d \in SUBSET BuilderDirs, files \in SUBSET BuilderFiles :
          /\ fs = [dirs |-> Closure({Home, BuilderRoot} \cup d), files |-> files]
          /\ \A p \in files : p \notin fs.dirs /\ Parent(p) \in fs.dirs
          /\ \E source \in TemplateTexts :
                texts = [p \in files |->
                            IF p = TemplateFile THEN source ELSE <<"old">>]
    /\ yaml = NoYaml
    /\ loader = NoLoader
    /\ ret = NoRet
    /\ calls = <<>>
    /\ gen = IdleGen
    /\ IdleSkills
    /\ IdleStyle

NextBuilder == build_html \/ build_to_file \/ UtilsReturn

SpecBuilder == InitBuilder /\ [][NextBuilder]_vars

(* Inputs of resume.pdf *)

HtmlContents == {<<>>, <<"<p>", "Ann", "</p>">>}

\* output_path / pdf_path arguments: "out.pdf", "./out.pdf", a Path below
\* directories that do not exist yet, and a path below a regular file.
PdfPaths ==
    {StrArg(<<"out.pdf">>), StrArg(<<".", "out.pdf">>),
     PathArg(Home \o <<"new", "sub", "r.pdf">>),
     PathArg(Join(TemplateFile, "r.pdf"))}

HtmlPaths == {StrArg(<<"in.html">>), PathArg(Home \o <<"site", "in.html">>)}

\* data_dir arguments of build_resume_pdf: None or a Path
DataDirArgs == {NoneArg, PathArg(DataD)}

PdfDirs == {Join(BuilderRoot, "templates"), Join(BuilderRoot, "output"),
            Join(Home, "site")}

PdfFiles == {TemplateFile, Join(BuilderRoot, "in.html"),
             Home \o <<"site", "in.html">>, Join(Home, "new")}

html_to_pdf ==
    /\ ret.op = "none"
    /\ gen.pc = "idle"
    /\ \E html_content \in HtmlContents, output_path \in PdfPaths :
          Enter("html_to_pdf",
                HtmlToPdf(fs, "html_to_pdf", html_content, output_path),
                GenArgs(html_content, NoneArg, output_path, "", NoneArg))

html_file_to_pdf ==
    /\ ret.op = "none"
    /\ gen.pc = "idle"
    /\ \E html_path \in HtmlPaths, pdf_path \in PdfPaths :
          Enter("html_file_to_pdf", HtmlFileToPdf(fs, html_path, pdf_path),
                GenArgs(<<>>, html_path, pdf_path, "", NoneArg))

generate_pdf ==
    /\ ret.op = "none"
    /\ gen.pc = "idle"
    /\ \E resume \in Resumes, output_path \in PdfPaths :
          Enter("generate_pdf",
                GeneratePdf(fs, texts, "generate_pdf", resume, output_path),
                GenArgs(<<>>, NoneArg, output_path, "", NoneArg))

build_resume_pdf ==
    /\ ret.op = "none"
    /\ gen.pc = "idle"
    /\ \E resume \in Resumes, profile \in Profiles, data_dir \in DataDirArgs :
          Enter("build_resume_pdf",
                BuildResumePdf(fs, texts, env, resume, profile, data_dir),
                GenArgs(<<>>, NoneArg, NoneArg, profile, data_dir))

InitPdf ==
    /\ project_root = BuilderRoot
    /\ env \in [RESUME_DATA_DIR : {Unset, Given(<<"~", "d">>)},
                XDG_DATA_HOME : {Unset}]
    /\ \E d \in SUBSET PdfDirs, files \in SUBSET PdfFiles :
          /\ fs = [dirs |-> Closure({Home, BuilderRoot} \cup d), files |-> files]
          /\ \A p \in files : p \notin fs.dirs /\ Parent(p) \in fs.dirs
          /\ texts = [p \in files |->
                        IF p = TemplateFile THEN <<"<h1>", HeaderName, "</h1>">>
                        ELSE <<"old">>]
    /\ yaml = NoYaml
    /\ loader = NoLoader
    /\ ret = NoRet
    /\ calls = <<>>
    /\ gen = IdleGen
    /\ IdleSkills
    /\ IdleStyle

NextPdf ==
    \/ html_to_pdf
    \/ html_file_to_pdf
    \/ generate_pdf
    \/ build_resume_pdf
    \/ chromium_launch
    \/ new_page
    \/ set_content
    \/ wait_for_load_state
    \/ page_goto
    \/ page_pdf
    \/ browser_close
    \/ playwright_error
    \/ UtilsReturn

SpecPdf == InitPdf /\ [][NextPdf]_vars

(* Inputs of resume.cli *)

\* The skill names added: one that differs from "Go" in case only, a new
\* one, and "git" in capitals.
AddSkillNames == {<<"g","o">>, <<"C">>, <<"G","I","T">>}

\* --category and --proficiency: the defaults, and values given.
SkillOptions ==
    {[category |-> "General", proficiency |-> "Intermediate"],
     [category |-> "Languages", proficiency |-> "Expert"]}

\* --data-dir: not given, or ~/d.
DataDirsGiven == {Unset, Given(<<"~", "d">>)}

ProfileSkillsYml == Join(ProfileDir(DataD, "p1"), "skills.yml")

\* add_skill(profile, skill_name, category, proficiency, data_dir_opt)
add_skill ==
    /\ ret.op = "none"
    /\ gen.pc = "idle"
    /\ \E profile \in Profiles, skill_name \in AddSkillNames,
          o \in SkillOptions, given \in DataDirsGiven :
          LET data_dir_opt == DataDirOption(env, given)
              r == AddSkill(fs, yaml, texts, env, profile, skill_name,
                            o.category, o.proficiency, data_dir_opt)
          IN  /\ fs' = r.fs
              /\ yaml' = r.yaml
              /\ ret' = [op |-> "add_skill",
                         status |-> IF r.code = 0 THEN "ok" ELSE "Exit",
                         value |-> [code |-> r.code, outcome |-> r.outcome],
                         arg |-> [profile |-> profile, skill_name |-> skill_name,
                                  category |-> o.category,
                                  proficiency |-> o.proficiency,
                                  data_dir_opt |-> data_dir_opt]]
    /\ UNCHANGED <<env, project_root, loader>>
    /\ UNCHANGED <<skillsVars, styleVars, docVars>>

\* The data directory ~/d with the profiles p1 and p2: common/skills.yml is
\* missing, empty, or holds a mapping; p1 may have a skills.yml of its own.
InitAddSkill ==
    /\ project_root = <<"/", "opt", "tool">>
    /\ env \in [RESUME_DATA_DIR : {Unset, Given(<<"~", "d">>)},
                XDG_DATA_HOME : {Unset}]
    /\ \E files \in SUBSET {SkillsYml, ProfileSkillsYml} :
          /\ fs = [dirs |-> Closure({project_root, Join(DataD, "common"),
                                     ProfileDir(DataD, "p1"),
                                     ProfileDir(DataD, "p2")}),
                   files |-> files]
          /\ \E common \in SkillsDocs \cup {NullDoc} :
                yaml = [p \in files |->
                          IF p = SkillsYml THEN common
                          ELSE Doc({"skills"}, "", "", NoContact, <<>>,
                                   <<CHOOSE x \in SkillEntries :
                                        x.name = <<"g","i","t">> >>)]
    /\ texts = NoText
    /\ loader = NoLoader
    /\ ret = NoRet
    /\ calls = <<>>
    /\ gen = IdleGen
    /\ IdleSkills
    /\ IdleStyle

NextAddSkill == add_skill \/ UtilsReturn

SpecAddSkill == InitAddSkill /\ [][NextAddSkill]_vars

\* --format: one format, a list, in capitals, and one that is not known.
BuildFormatOptions ==
    {<<"html">>, <<"PDF">>, <<"both">>, <<"html", " pdf">>, <<"docx">>}

\* --output: not given, or a path.
BuildOutputs == {NoneArg, StrArg(<<"out", "r.html">>)}

\* A command returned r: the disk it leaves and what the caller sees.
CommandEnds(op, r, a) ==
    /\ fs' = r.fs
    /\ texts' = r.texts
    /\ ret' = [op |-> op, status |-> IF r.code = 0 THEN "ok" ELSE "Exit",
               value |-> [code |-> r.code, outcome |-> r.outcome,
                          loaded |-> r.loaded],
               arg |-> a]

CommandArgs(profile, format, output, data_dir) ==
    [profile |-> profile, format |-> format, output |-> output,
     data_dir |-> data_dir]

\* build(profile, format, output, data_dir)
build ==
    /\ ret.op = "none"
    /\ gen.pc = "idle"
    /\ \E profile \in Profiles, format \in BuildFormatOptions,
          output \in BuildOutputs, given \in DataDirsGiven,
          browser_ok \in BOOLEAN :
          CommandEnds("build",
                      Build(fs, yaml, texts, env, profile, format, output,
                            DataDirOption(env, given), browser_ok),
                      CommandArgs(profile, format, output,
                                  DataDirOption(env, given)))
    /\ UNCHANGED <<yaml, env, project_root, loader, calls, gen>>
    /\ UNCHANGED <<skillsVars, styleVars>>

\* analyze(profile, data_dir)
analyze ==
    /\ ret.op = "none"
    /\ gen.pc = "idle"
    /\ \E profile \in Profiles, given \in DataDirsGiven, model_ok \in BOOLEAN :
          CommandEnds("analyze",
                      Analyze(fs, yaml, texts, env, profile,
                              DataDirOption(env, given), model_ok),
                      CommandArgs(profile, <<>>, NoneArg,
                                  DataDirOption(env, given)))
    /\ UNCHANGED <<yaml, env, project_root, loader, calls, gen>>
    /\ UNCHANGED <<skillsVars, styleVars>>

\* The data directory ~/d with the files of the profile p1, all there or
\* some missing.
InitBuild ==
    /\ ResumeData
    /\ {ExperienceYml, SkillsYml} \subseteq fs.files
    /\ loader = NoLoader
    /\ ret = NoRet
    /\ calls = <<>>
    /\ gen = IdleGen
    /\ IdleSkills
    /\ IdleStyle

NextBuild == build \/ analyze \/ UtilsReturn

SpecBuild == InitBuild /\ [][NextBuild]_vars

\* --job and --cv: files in the home directory.
JobDescriptionTxt == Join(Home, "job.txt")

CvYml == Join(Home, "cv.yml")

CvFiles == {NoneArg, PathArg(CvYml)}

\* What the job file can hold: a description, white space only, nothing.
GenerateJobTexts == {<<"S", "R", "E", CR, LF>>, <<" ", LF>>, <<>>}

OldHeaderYml == Join(ProfileDir(DataD, "p1"), "header.yml")

\* What generator.generate_profile(...) brings: an exception, or a result
\* with the resume content and the cover letter.
AgentResults ==
    {[ok |-> FALSE, header_title |-> "", summary |-> "", experiences |-> <<>>,
      skills |-> <<>>, cover_letter_md |-> <<>>],
     [ok |-> TRUE, header_title |-> "Staff SRE",
      summary |-> "Leads reliability teams",
      experiences |-> <<CHOOSE x \in ExperienceEntries : x.company = "Acme">>,
      skills |-> <<CHOOSE x \in SkillEntries : x.name = <<"G","o">> >>,
      cover_letter_md |-> <<"D", "e", "a", "r", LF>>]}

\* The answers to "Write profile files to disk?": yes, no, or none at all.
Confirmations == {"yes", "no", "abort"}

\* generate_profile returned r: the disk it leaves and what the caller sees.
GenerateEnds(r, a) ==
    /\ fs' = r.fs
    /\ yaml' = r.yaml
    /\ texts' = r.texts
    /\ ret' = [op |-> "generate_profile",
               status |-> IF r.code = 0 THEN "ok" ELSE "Exit",
               value |-> [code |-> r.code, outcome |-> r.outcome,
                          agents_run |-> r.agents_run],
               arg |-> a]

GenerateArgs(profile_name, job_file, cv_file, auto_build, skip_confirmation, data_dir, confirm) ==
    [profile_name |-> profile_name, job_file |-> job_file, cv_file |-> cv_file,
     auto_build |-> auto_build, skip_confirmation |-> skip_confirmation,
     data_dir |-> data_dir, confirm |-> confirm]

\* generate_profile(profile_name, job_file, cv_file, ..., auto_build,
\* skip_confirmation, data_dir)
generate_profile ==
    /\ ret.op = "none"
    /\ gen.pc = "idle"
    /\ \E profile_name \in Profiles, cv_file \in CvFiles,
          auto_build \in BOOLEAN, skip_confirmation \in BOOLEAN,
          given \in DataDirsGiven, result \in AgentResults,
          confirm \in Confirmations :
          GenerateEnds(GenerateProfile(fs, yaml, texts, env, profile_name,
                                       JobDescriptionTxt, cv_file, auto_build,
                                       skip_confirmation,
                                       DataDirOption(env, given), result,
                                       confirm),
                       GenerateArgs(profile_name, JobDescriptionTxt, cv_file, auto_build,
                                    skip_confirmation,
                                    DataDirOption(env, given), confirm))
    /\ UNCHANGED <<env, project_root, loader, calls, gen>>
    /\ UNCHANGED <<skillsVars, styleVars>>

\* The data directory ~/d, where the profile p1 may be there already; the
\* job file, the CV and common/experience.yml are there or missing.
InitGenerate ==
    /\ project_root = <<"/", "opt", "tool">>
    /\ env \in [RESUME_DATA_DIR : {Unset, Given(<<"~", "d">>)},
                XDG_DATA_HOME : {Unset}]
    /\ \E files \in SUBSET {JobDescriptionTxt, CvYml, ExperienceYml, OldHeaderYml} :
          /\ \E old \in SUBSET {ProfileDir(DataD, "p1")} :
                /\ OldHeaderYml \in files => old # {}
                /\ fs = [dirs |-> Closure({project_root, Home,
                                           Join(DataD, "common")} \cup old),
                         files |-> files]
          /\ yaml = [p \in files \ {JobDescriptionTxt} |->
                       IF p = OldHeaderYml THEN GoodHeaderDoc
                       ELSE Doc({"experiences"}, "", "", NoContact,
                                <<CHOOSE x \in ExperienceEntries :
                                     x.company = "Acme">>, <<>>)]
          /\ \E job \in GenerateJobTexts :
                texts = [p \in files \cap {JobDescriptionTxt} |-> job]
    /\ loader = NoLoader
    /\ ret = NoRet
    /\ calls = <<>>
    /\ gen = IdleGen
    /\ IdleSkills
    /\ IdleStyle

NextGenerate == generate_profile \/ UtilsReturn

SpecGenerate == InitGenerate /\ [][NextGenerate]_vars

\* The whole program: any of the subsystems in use.
Init ==
    \/ InitSkillsLong \/ InitStyle \/ InitDirs \/ InitLoader \/ InitBuilder
    \/ InitPdf \/ InitAddSkill \/ InitBuild \/ InitGenerate

Next ==
    \/ NextSkills \/ NextStyle \/ NextDirs \/ NextLoader \/ NextBuilder
    \/ NextPdf \/ NextAddSkill \/ NextBuild \/ NextGenerate

Spec == Init /\ [][Next]_vars


-----------------------------------------------------------------------------
(* Claims about compare_skills *)

\* Some resume skill has the same lower-cased form as skill.
HasLowerEqual(skill, resume) ==
    \E j \in 1..Len(resume) : Lower(skill) = Lower(resume[j])

\* req is split, entry by entry and in order, into yes (the entries with a
\* lower-case-equal resume skill) and no (the others).
RECURSIVE SplitsInto(_, _, _, _)
SplitsInto(req, yes, no, resume) ==
    IF req = <<>> THEN yes = <<>> /\ no = <<>>
    ELSE IF HasLowerEqual(Head(req), resume)
         THEN /\ yes # <<>>
              /\ Head(yes) = Head(req)
              /\ SplitsInto(Tail(req), Tail(yes), no, resume)
         ELSE /\ no # <<>>
              /\ Head(no) = Head(req)
              /\ SplitsInto(Tail(req), yes, Tail(no), resume)

\* The entries of seq, in order, that have no lower-case-equal resume skill.
RECURSIVE Unmatched(_, _)
Unmatched(seq, resume) ==
    IF seq = <<>> THEN <<>>
    ELSE (IF HasLowerEqual(Head(seq), resume) THEN <<>> ELSE <<Head(seq)>>)
         \o Unmatched(Tail(seq), resume)

\* C3: compare_skills partitions required_skills, with multiplicity and in
\* order, into matching_skills (the entries whose lower-cased form equals the
\* lower-cased form of some resume skill) and missing_required_skills (the
\* others); missing_preferred_skills is exactly the preferred entries whose
\* lower-cased form equals no lower-cased resume skill.
C3_Partition ==
    analysis.done =>
        /\ SplitsInto(required_skills, analysis.matching_skills,
                      analysis.missing_required_skills, resume_skills)
        /\ Len(analysis.matching_skills) + Len(analysis.missing_required_skills)
               = Len(required_skills)
        /\ analysis.missing_preferred_skills
               = Unmatched(preferred_skills, resume_skills)

\* A call where a required skill matches a resume skill spelled in another
\* letter case, another required skill is missing, and a preferred one too.
C3_Witness ==
    /\ analysis.done
    /\ \E i \in 1..Len(analysis.matching_skills) :
           analysis.matching_skills[i] \notin Range(resume_skills)
    /\ analysis.missing_required_skills # <<>>
    /\ analysis.missing_preferred_skills # <<>>

Abs(x) == IF x < 0 THEN -x ELSE x

\* pct (in tenths) is m / n * 100 rounded to one decimal place: no tenth is nearer.
IsRoundedPct(pct, m, n) == 2 * Abs(pct * n - 1000 * m) <= n

\* What C4 states without a condition on the length of required_skills.
PctBasics ==
    LET n == Len(required_skills)
        m == Len(analysis.matching_skills)
        pct == analysis.skill_match_percentage
    IN  /\ n = 0 => pct = 1000
        /\ n > 0 => IsRoundedPct(pct, m, n)
        /\ 0 <= pct /\ pct <= 1000
        /\ analysis.missing_required_skills = <<>> => pct = 1000
        /\ (n > 0 /\ m = 0) => pct = 0

\* 100 only when nothing is missing, 0 only when nothing of a non-empty list matches.
PctConverses ==
    /\ analysis.skill_match_percentage = 1000
          => analysis.missing_required_skills = <<>>
    /\ analysis.skill_match_percentage = 0
          => (required_skills # <<>> /\ analysis.matching_skills = <<>>)

\* C4 as stated: skill_match_percentage is 100 * len(matching) / len(required)
\* rounded to one decimal place (100.0 for no required skills), lies in 0..100,
\* is 100 exactly when missing_required_skills is empty, and is 0 exactly when
\* required_skills is non-empty and matching_skills is empty, for every input.
C4_PctAsStated == analysis.done => (PctBasics /\ PctConverses)

\* C4, amended: the value is the rounded quotient (100.0 for no required
\* skills), lies in 0..100, is 100 when missing_required_skills is empty and 0
\* when required_skills is non-empty and nothing matches; the converses hold
\* for fewer than 2000 required skills.
C4_PctAmended ==
    analysis.done =>
        /\ PctBasics
        /\ Len(required_skills) < 2000 => PctConverses

\* A call where some but not all required skills match and the quotient is
\* rounded up to the next tenth.
C4_Witness ==
    /\ analysis.done
    /\ analysis.matching_skills # <<>>
    /\ analysis.missing_required_skills # <<>>
    /\ analysis.skill_match_percentage * Len(required_skills)
           > 1000 * Len(analysis.matching_skills)

-----------------------------------------------------------------------------
(* Claims about StyleRules *)

\* The rules of a StyleRules object: the named ones, and one per entry of
\* no_buzzwords.
RuleIds(r) ==
    {<<"no_em_dashes", 0>>, <<"no_en_dashes", 0>>, <<"max_bullet_length", 0>>,
     <<"action_verb_start", 0>>, <<"no_first_person", 0>>,
     <<"bullet_end_punctuation", 0>>}
    \cup {<<"no_buzzwords", k>> : k \in 1..Len(r.no_buzzwords)}

\* A boolean rule is enabled by its flag, the end punctuation by a non-empty
\* value; the length limit and the listed buzzwords always apply.
RuleEnabled(r, id) ==
    CASE id[1] = "no_em_dashes" -> r.no_em_dashes
      [] id[1] = "no_en_dashes" -> r.no_en_dashes
      [] id[1] = "action_verb_start" -> r.action_verb_start
      [] id[1] = "no_first_person" -> r.no_first_person
      [] id[1] = "bullet_end_punctuation" -> r.bullet_end_punctuation # <<>>
      [] OTHER -> TRUE

\* The bullet breaks the rule.
BreaksRule(r, id, text) ==
    CASE id[1] = "no_em_dashes" -> \E i \in 1..Len(text) : text[i] = EmDash
      [] id[1] = "no_en_dashes" -> \E i \in 1..Len(text) : text[i] = EnDash
      [] id[1] = "max_bullet_length" -> Len(text) > r.max_bullet_length
      [] id[1] = "action_verb_start" ->
            \/ text = <<>>
            \/ ~IsUpperChar(text[1])
            \/ \E k \in 1..Len(weak_starts) : StartsWith(Lower(text), weak_starts[k])
      [] id[1] = "no_first_person" ->
            \E w \in {<<"I">>, <<"m","y">>, <<"m","i","n","e">>, <<"w","e">>,
                      <<"o","u","r">>, <<"o","u","r","s">>} : SearchWord(w, text)
      [] id[1] = "no_buzzwords" ->
            Contains(Lower(text), Lower(r.no_buzzwords[id[2]]))
      [] id[1] = "bullet_end_punctuation" ->
            ~EndsWith(text, r.bullet_end_punctuation)

BrokenRules(r, text) ==
    {id \in RuleIds(r) : RuleEnabled(r, id) /\ BreaksRule(r, id, text)}

\* The rule a message comes from.
RuleOfMessage(m) ==
    CASE m.kind = "em_dash" -> "no_em_dashes"
      [] m.kind = "en_dash" -> "no_en_dashes"
      [] m.kind = "too_long" -> "max_bullet_length"
      [] m.kind \in {"no_capital", "weak_verb"} -> "action_verb_start"
      [] m.kind = "first_person" -> "no_first_person"
      [] m.kind = "buzzword" -> "no_buzzwords"
      [] m.kind = "end_punctuation" -> "bullet_end_punctuation"

\* No message comes from a disabled rule.
OnlyEnabledRulesSpeak(r, violations) ==
    \A i \in 1..Len(violations) :
        RuleEnabled(r, <<RuleOfMessage(violations[i]), 0>>)

\* The bullet starts with a weak phrase written without a capital letter.
LowerCaseWeakStart(text) ==
    /\ text # <<>>
    /\ ~IsUpperChar(text[1])
    /\ \E k \in 1..Len(weak_starts) : StartsWith(Lower(text), weak_starts[k])

\* C5 as stated: validate_bullet returns the empty list exactly when the bullet
\* breaks no enabled rule, exactly one message when it breaks exactly one
\* enabled rule, and no message from a disabled rule.
C5_OneMessagePerRule ==
    style_ret.op = "validate_bullet" =>
        /\ style_ret.violations = <<>> <=> BrokenRules(rules, bullet) = {}
        /\ Cardinality(BrokenRules(rules, bullet)) = 1
              => Len(style_ret.violations) = 1
        /\ OnlyEnabledRulesSpeak(rules, style_ret.violations)

\* C5, amended: as stated, except that a bullet whose only broken rule is
\* action_verb_start gets two messages when it starts with a weak phrase in
\* lower case (one for the missing capital letter, one for the weak verb).
C5_OneMessagePerRuleAmended ==
    style_ret.op = "validate_bullet" =>
        /\ style_ret.violations = <<>> <=> BrokenRules(rules, bullet) = {}
        /\ Cardinality(BrokenRules(rules, bullet)) = 1
              => Len(style_ret.violations) =
                    IF /\ BrokenRules(rules, bullet) = {<<"action_verb_start", 0>>}
                       /\ LowerCaseWeakStart(bullet)
                    THEN 2 ELSE 1
        /\ OnlyEnabledRulesSpeak(rules, style_ret.violations)

\* A bullet that breaks action_verb_start alone and gets two messages, under
\* rules with another rule disabled that the bullet would break.
C5_Witness ==
    /\ style_ret.op = "validate_bullet"
    /\ BrokenRules(rules, bullet) = {<<"action_verb_start", 0>>}
    /\ Len(style_ret.violations) = 2
    /\ \E id \in RuleIds(rules) :
           ~RuleEnabled(rules, id) /\ BreaksRule(rules, id, bullet)

\* Every achievement of every entry under 'experiences', in order.
AllBullets(c) ==
    IF c.has_experiences
    THEN Concat([i \in 1..Len(c.experiences) |->
                    IF c.experiences[i].has_achievements
                    THEN c.experiences[i].achievements ELSE <<>>])
    ELSE <<>>

\* C6: validate_content returns the concatenation, in order, of validate_bullet
\* applied to every achievement of every entry under 'experiences'; content
\* without 'experiences', and an experience without 'achievements', add nothing.
C6_ContentIsConcatenation ==
    style_ret.op = "validate_content" =>
        /\ style_ret.violations =
              Concat([k \in 1..Len(AllBullets(content)) |->
                         ValidateBullet(rules, AllBullets(content)[k])])
        /\ ~content.has_experiences => style_ret.violations = <<>>
        /\ (\A i \in 1..Len(content.experiences) :
               ~content.experiences[i].has_achievements)
              => style_ret.violations = <<>>

\* Content with an experience without 'achievements' followed by an experience
\* with a clean bullet and then a bullet with violations.
C6_Witness ==
    /\ style_ret.op = "validate_content"
    /\ content.has_experiences
    /\ Len(content.experiences) = 2
    /\ ~content.experiences[1].has_achievements
    /\ content.experiences[2].has_achievements
    /\ Len(content.experiences[2].achievements) = 2
    /\ ValidateBullet(rules, content.experiences[2].achievements[1]) = <<>>
    /\ ValidateBullet(rules, content.experiences[2].achievements[2]) # <<>>
    /\ style_ret.violations # <<>>

-----------------------------------------------------------------------------
(* Claims about ResumeLoader *)

\* C1: load_header merges the profile header over the common header key by
\* key: each of name, title and contact comes from profiles/<profile>/header.yml
\* when that file exists and defines the key, and from common/header.yml
\* otherwise; a profile header with only a title yields its title with the
\* common name and the common contact.
C1_HeaderMerge ==
    (ret.op = "load_header" /\ ret.status = "ok") =>
        LET common == Join(loader.common_dir, "header.yml")
            profile == Join(loader.profile_dir, "header.yml")
            Defines(k) == profile \in fs.files /\ k \in yaml[profile].keys
            From(k) == IF Defines(k) THEN yaml[profile] ELSE yaml[common]
        IN  /\ common \in fs.files
            /\ ret.value.name = From("name").name
            /\ ret.value.title = From("title").title
            /\ ret.value.contact.email = From("contact").contact.email
            /\ ret.value.contact.phone =
                  IF "phone" \in From("contact").contact.keys
                  THEN From("contact").contact.phone ELSE None
            /\ (profile \in fs.files /\ yaml[profile].keys = {"title"})
                  => /\ ret.value.title = yaml[profile].title
                     /\ ret.value.name = yaml[common].name
                     /\ ret.value.contact.email = yaml[common].contact.email

\* A profile header with only a title, other than the common title.
C1_Witness ==
    /\ ret.op = "load_header"
    /\ ret.status = "ok"
    /\ Join(loader.profile_dir, "header.yml") \in fs.files
    /\ yaml[Join(loader.profile_dir, "header.yml")].keys = {"title"}
    /\ ret.value.title # yaml[Join(loader.common_dir, "header.yml")].title
    /\ ret.value.name = yaml[Join(loader.common_dir, "header.yml")].name

\* The companies / names of the entries of a list, in order.
Companies(entries) == [i \in 1..Len(entries) |-> entries[i].company]

SkillNamesOf(entries) == [i \in 1..Len(entries) |-> entries[i].name]

\* What C2 says of one of the two methods: op read the list under key from the
\* profile's file when there is one and from the common file only otherwise;
\* the result has the entries of that file, in its order, and with a profile
\* file nothing of the common file is used.
ReadsOneFile(op, name, key, Ids(_)) ==
    ret.op = op =>
        LET profile == Join(loader.profile_dir, name)
            common == Join(loader.common_dir, name)
            read == IF profile \in fs.files THEN profile ELSE common
            Entries(file) ==
                IF key = "skills" THEN yaml[file].skills ELSE yaml[file].experiences
        IN  /\ read \notin fs.files => ret.status = "FileNotFoundError"
            /\ ret.status = "ok" =>
                  /\ read \in fs.files
                  /\ key \in yaml[read].keys
                  /\ Ids(ret.value) = Ids(Entries(read))
                  /\ (profile \in fs.files /\ common \in fs.files)
                        => \A i \in 1..Len(Entries(common)) :
                              Ids(Entries(common))[i] \in Range(Ids(Entries(profile)))
                              \/ Ids(Entries(common))[i] \notin Range(Ids(ret.value))

\* C2: load_experience and load_skills each read exactly one file, the
\* profile's when it exists and the common one only when it does not; the
\* result is never a mix, and keeps the order of the file read.
C2_OneFile ==
    /\ ReadsOneFile("load_experience", "experience.yml", "experiences", Companies)
    /\ ReadsOneFile("load_skills", "skills.yml", "skills", SkillNamesOf)

\* Both experience files exist with different entries; the result is the
\* profile's two entries in order, and a common entry is left out.
C2_Witness ==
    /\ ret.op = "load_experience"
    /\ ret.status = "ok"
    /\ Join(loader.profile_dir, "experience.yml") \in fs.files
    /\ Join(loader.common_dir, "experience.yml") \in fs.files
    /\ Len(ret.value) = 2
    /\ ret.value[1].company # ret.value[2].company
    /\ \E i \in 1..Len(yaml[Join(loader.common_dir, "experience.yml")].experiences) :
          yaml[Join(loader.common_dir, "experience.yml")].experiences[i].company
              \notin Range(Companies(ret.value))

\* C10: ResumeLoader(profile) raises ValueError('Profile not found: <profile>')
\* exactly when <data dir>/profiles/<profile> does not exist; when it exists
\* the loader has that directory as profile_dir; and either way construction
\* leaves the disk as it was.  (<data dir> is what get_data_dir() returns.)
C10_Constructor ==
    [][(ret.op = "none" /\ ret'.op = "ResumeLoader") =>
          LET d == GetDataDir(fs, env, Unset)
              dir == Join(Join(d.path, "profiles"), ret'.arg)
              there == Resolve(dir) \in fs.dirs \cup fs.files
          IN  /\ fs' = fs
              /\ yaml' = yaml
              /\ d.status = "ok" =>
                    /\ (/\ ret'.status = "ValueError"
                        /\ ret'.value = <<"Profile not found: ", ret'.arg>>)
                          <=> ~there
                    /\ there => /\ ret'.status = "ok"
                                /\ loader'.constructed
                                /\ loader'.profile = ret'.arg
                                /\ loader'.profile_dir = dir
    ]_vars

\* 'Profile not found' for p1 although another data directory has a profile p1.
C10_Witness ==
    /\ ret.op = "ResumeLoader"
    /\ ret.status = "ValueError"
    /\ ret.value = <<"Profile not found: ", "p1">>
    /\ \E p \in fs.dirs : Name(p) = "p1"

-----------------------------------------------------------------------------
(* Claims about get_data_dir and get_output_dir *)

\* C7: get_data_dir takes the first applicable of (1) custom_path, (2)
\* RESUME_DATA_DIR, (3) $XDG_DATA_HOME/resume-as-code, (4)
\* ~/.local/share/resume-as-code, (5) <project root>/data: a higher source wins
\* over every lower one, and with none of 1-4 the result is <project root>/data.
\* (An argument or variable that is the empty string counts as not given; 3
\* and 4 apply when the directory exists.)
C7_Priority ==
    ret.op = "get_data_dir" =>
        LET custom == ret.arg
            data_env == env.RESUME_DATA_DIR
            xdg == env.XDG_DATA_HOME
            a1 == custom.set /\ custom.value # <<>>
            a2 == data_env.set /\ data_env.value # <<>>
            a3 == /\ xdg.set /\ xdg.value # <<>>
                  /\ Resolve(Join(xdg.value, "resume-as-code")) \in fs.dirs \cup fs.files
            a4 == HomeShare \in fs.dirs \cup fs.files
            winner ==
                IF a1 THEN Resolve(ExpandUser(custom.value))
                ELSE IF a2 THEN Resolve(ExpandUser(data_env.value))
                ELSE IF a3 THEN Join(xdg.value, "resume-as-code")
                ELSE IF a4 THEN HomeShare
                ELSE Join(project_root, "data")
        IN  /\ ret.status = "ok" => ret.value = winner
            /\ ret.status # "ok" => (ret.status = "ValueError" /\ (a1 \/ a2 \/ a3 \/ a4))
            /\ ~(a1 \/ a2 \/ a3 \/ a4)
                  => (ret.status = "ok" /\ ret.value = Join(project_root, "data"))

\* All of the sources 1-4 are there and the custom path is the result.
C7_Witness ==
    /\ ret.op = "get_data_dir"
    /\ ret.status = "ok"
    /\ ret.arg = Given(<<"~", "d">>)
    /\ env.RESUME_DATA_DIR = Given(CheckoutData)
    /\ env.XDG_DATA_HOME = Given(XdgHome)
    /\ Join(XdgHome, "resume-as-code") \in fs.dirs
    /\ HomeShare \in fs.dirs
    /\ ret.value = DataD

\* The path is, or lies in, a directory named like the repository that has a
\* .git entry.
InsideRepo(f, p) ==
    \E k \in 1..Len(p) :
        /\ Name(SubSeq(p, 1, k)) \in {"resume-as-code", "resume-as-code-private"}
        /\ Join(SubSeq(p, 1, k), ".git") \in f.dirs \cup f.files

\* C8: a path returned by get_data_dir has no ancestor-or-self directory named
\* 'resume-as-code' or 'resume-as-code-private' that contains a .git entry.
C8_NeverInsideRepo ==
    (ret.op = "get_data_dir" /\ ret.status = "ok")
        => ~InsideRepo(fs, Resolve(ret.value))

\* C9: get_output_dir returns $RESUME_DATA_DIR/output when RESUME_DATA_DIR is
\* set (and not empty) and <project root>/output otherwise, and the directory
\* returned exists.
C9_OutputDir ==
    (ret.op = "get_output_dir" /\ ret.status = "ok") =>
        /\ ret.value =
              IF env.RESUME_DATA_DIR.set /\ env.RESUME_DATA_DIR.value # <<>>
              THEN Join(Resolve(ExpandUser(env.RESUME_DATA_DIR.value)), "output")
              ELSE Join(project_root, "output")
        /\ ret.value \in fs.dirs

\* RESUME_DATA_DIR=~/d: ~/d/output is returned and the project has no output.
C9_Witness ==
    /\ ret.op = "get_output_dir"
    /\ ret.status = "ok"
    /\ env.RESUME_DATA_DIR = Given(<<"~", "d">>)
    /\ ret.value = Join(DataD, "output")
    /\ Join(project_root, "output") \notin fs.dirs

-----------------------------------------------------------------------------
(* Claims about load_job_description, load_footer, load_resume and          *)
(* get_available_profiles                                                  *)

\* How often the character c occurs in the text s.
Count(s, c) == Cardinality({i \in 1..Len(s) : s[i] = c})

\* The text s without its line-end characters.
RECURSIVE WithoutLineEnds(_)
WithoutLineEnds(s) ==
    IF s = <<>> THEN <<>>
    ELSE IF s[1] \in {CR, LF} THEN WithoutLineEnds(Tail(s))
    ELSE <<s[1]>> \o WithoutLineEnds(Tail(s))

\* The line ends of s: each "\r\n", each other "\r" and each other "\n".
LineEnds(s) ==
    Count(s, CR) + Count(s, LF)
    - Cardinality({i \in 1..(Len(s) - 1) : s[i] = CR /\ s[i + 1] = LF})

\* got is stored with every line end written as "\n".
SameTextWithUnixLineEnds(got, stored) ==
    /\ Count(got, CR) = 0
    /\ Count(got, LF) = LineEnds(stored)
    /\ WithoutLineEnds(got) = WithoutLineEnds(stored)
    /\ Count(stored, CR) = 0 => got = stored

JobFile == Join(loader.profile_dir, "job.txt")

FooterFile == Join(loader.common_dir, "footer.yml")

\* load_job_description raises 'No job description found for profile:
\* <profile>' exactly when the profile directory has no job.txt.
JobMissingRaises ==
    ret.op = "load_job_description" =>
        /\ (ret.status = "FileNotFoundError") <=> (JobFile \notin fs.files)
        /\ ret.status = "FileNotFoundError" =>
              ret.value = <<"No job description found for profile: ",
                            loader.profile>>
        /\ JobFile \in fs.files => ret.status = "ok"

\* A missing common/footer.yml is not an error: load_footer returns None, and
\* load_resume returns a Resume with footer None when the other parts load.
FooterMissingIsNone ==
    FooterFile \notin fs.files =>
        /\ ret.op = "load_footer" => ret.status = "ok" /\ ret.value.none
        /\ (/\ ret.op = "load_resume"
            /\ LoadHeader(fs, yaml, loader).status = "ok"
            /\ LoadSummary(fs, yaml, loader).status = "ok"
            /\ LoadExperience(fs, yaml, loader).status = "ok"
            /\ LoadSkills(fs, yaml, loader).status = "ok")
           => ret.status = "ok" /\ ret.value.footer.none

\* C11 as stated: load_job_description raises FileNotFoundError exactly when
\* the profile directory has no job.txt and otherwise returns the text of
\* job.txt unchanged; a missing footer.yml makes load_footer return None and
\* does not stop load_resume.
C11_JobTextUnchanged ==
    /\ JobMissingRaises
    /\ FooterMissingIsNone
    /\ (ret.op = "load_job_description" /\ ret.status = "ok")
          => ret.value = texts[JobFile]

\* C11 amended: the text returned is the text of job.txt with every line end
\* ("\r\n", "\r" or "\n") as "\n"; it is the stored text when that has no "\r".
C11_JobTextUnixLineEnds ==
    /\ JobMissingRaises
    /\ FooterMissingIsNone
    /\ (ret.op = "load_job_description" /\ ret.status = "ok")
          => SameTextWithUnixLineEnds(ret.value, texts[JobFile])

\* job.txt with a "\r\n" inside is returned with "\n" there.
C11_Witness ==
    /\ ret.op = "load_job_description"
    /\ ret.status = "ok"
    /\ texts[JobFile] = <<"S", "R", "E", CR, LF, "G", "o">>
    /\ ret.value = <<"S", "R", "E", LF, "G", "o">>

\* C12: get_available_profiles returns exactly the names of the
\* sub-directories of <data dir>/profiles: each directory there once, no
\* regular file, and the empty list when profiles is empty or does not exist.
C12_Profiles ==
    ret.op = "get_available_profiles" =>
        LET d == GetDataDir(fs, env, Unset)
            profiles_dir == Resolve(Join(d.path, "profiles"))
            inside == {p \in fs.dirs \cup fs.files :
                          Len(p) = Len(profiles_dir) + 1
                          /\ SubSeq(p, 1, Len(profiles_dir)) = profiles_dir}
        IN  d.status = "ok" =>
              /\ ret.status = "ok"
              /\ \A p \in inside \cap fs.dirs :
                    Cardinality({i \in 1..Len(ret.value) :
                                    ret.value[i] = p[Len(p)]}) = 1
              /\ \A i \in 1..Len(ret.value) :
                    Append(profiles_dir, ret.value[i]) \in fs.dirs
              /\ \A p \in inside \cap fs.files :
                    \A i \in 1..Len(ret.value) : ret.value[i] # p[Len(p)]
              /\ (profiles_dir \notin fs.dirs \/ inside = {}) => ret.value = <<>>

\* Two profiles and a regular file in profiles: the two profiles are listed.
C12_Witness ==
    /\ ret.op = "get_available_profiles"
    /\ ret.status = "ok"
    /\ ReadmeTxt \in fs.files
    /\ ret.value = <<"p2", "p1">>

-----------------------------------------------------------------------------
(* Claims about ResumeBuilder *)

\* <output dir>: the directory get_output_dir() returns.
TheOutputDir ==
    IF env.RESUME_DATA_DIR.set /\ env.RESUME_DATA_DIR.value # <<>>
    THEN Home \o <<"d", "output">>
    ELSE Append(project_root, "output")

\* <output dir>/<profile>_resume.<format_type> for the call in a.
TheResumeFile(a) ==
    Append(TheOutputDir,
           CHOOSE n \in {"p1_resume.html", "p2_resume.html", "p1_resume.pdf",
                         "p2_resume.pdf", "p1_resume.docx", "p2_resume.docx"} :
              n = IF a.profile = "p1"
                  THEN (IF a.format_type = "html" THEN "p1_resume.html"
                        ELSE IF a.format_type = "pdf" THEN "p1_resume.pdf"
                        ELSE "p1_resume.docx")
                  ELSE (IF a.format_type = "html" THEN "p2_resume.html"
                        ELSE IF a.format_type = "pdf" THEN "p2_resume.pdf"
                        ELSE "p2_resume.docx"))

PathExists(f, p) == p \in f.dirs \cup f.files

\* C13: build_to_file(resume, profile, 'html') returns
\* <output dir>/<profile>_resume.html, and when it returns that file exists
\* and holds the HTML rendered from the resume.
C13_BuildToFileHtml ==
    (ret.op = "build_to_file" /\ ret.arg.format_type = "html"
     /\ ret.status = "ok") =>
        /\ ret.value = TheResumeFile(ret.arg)
        /\ ret.value \in fs.files
        /\ texts[ret.value] = Render(texts[TemplateFile], ret.arg.resume)
        /\ texts[TemplateFile] = <<"<h1>", HeaderName, "</h1>">>
              => texts[ret.value] = <<"<h1>", ret.arg.resume.header.name, "</h1>">>

\* With RESUME_DATA_DIR=~/d, Ann's resume for p1 is in ~/d/output.
C13_Witness ==
    /\ ret.op = "build_to_file"
    /\ ret.status = "ok"
    /\ ret.value = Home \o <<"d", "output", "p1_resume.html">>
    /\ ret.value \in fs.files
    /\ texts[ret.value] = <<"<h1>", "Ann", "</h1>">>

\* C14: build_to_file with a format_type other than the one it supports
\* raises ValueError('Unsupported format: <format_type>') and writes no resume
\* file: <output dir>/<profile>_resume.<format_type> does not exist afterwards
\* unless it existed before.  (<output dir> is there: get_output_dir returned.)
C14_UnsupportedFormat ==
    [][(/\ ret.op = "none"
        /\ ret'.op = "build_to_file"
        /\ ret'.arg.format_type # "html"
        /\ TheOutputDir \in fs'.dirs)
       => /\ ret'.status = "ValueError"
          /\ ret'.value = <<"Unsupported format: ", ret'.arg.format_type>>
          /\ PathExists(fs', TheResumeFile(ret'.arg))
                => PathExists(fs, TheResumeFile(ret'.arg))
          /\ fs'.files = fs.files
          /\ texts' = texts]_vars

\* 'docx' is refused: the output directory is there, the file is not.
C14_Witness ==
    /\ ret.op = "build_to_file"
    /\ ret.status = "ValueError"
    /\ ret.value = <<"Unsupported format: ", "docx">>
    /\ TheOutputDir \in fs.dirs
    /\ TemplateFile \in fs.files
    /\ ~PathExists(fs, TheResumeFile(ret.arg))

\* C15: build_to_file accepts 'html' and 'pdf': with either one it builds the
\* resume, saves it to the output directory and returns the path of the file.
C15_HtmlAndPdf ==
    (/\ ret.op = "build_to_file"
     /\ ret.arg.format_type \in {"html", "pdf"}
     /\ TheOutputDir \in fs.dirs
     /\ TemplateFile \in fs.files)
    => /\ ret.status = "ok"
       /\ ret.value = TheResumeFile(ret.arg)
       /\ ret.value \in fs.files

\* output_path is given: it is not None and not the empty string.
OutputPathGiven(a) == a.output_path.kind # "None" /\ a.output_path.value # <<>>

\* The file output_path names, from the working directory.
OutputFileOf(a) ==
    IF a.output_path.value[1] = "/" THEN a.output_path.value
    ELSE project_root \o a.output_path.value

DirsAbove(p) == {SubSeq(p, 1, k) : k \in 1..(Len(p) - 1)}

-----------------------------------------------------------------------------
(* Claims about PDFGenerator *)

\* The names of the operations invoked, in order.
OpsOf(c) == [i \in 1..Len(c) |-> c[i].op]

\* The file a path argument names: without "." components, from the working
\* directory when it is relative.
RequestedPath(a) ==
    LET p == SelectSeq(a.value, LAMBDA c : c # ".")
    IN  IF p # <<>> /\ p[1] = "/" THEN p ELSE project_root \o p

\* The same path as the string str(Path(...)) gives: not made absolute.
RequestedPathStr(a) == SelectSeq(a.value, LAMBDA c : c # ".")

\* C17: build_resume_pdf(resume, profile) without a data_dir returns
\* <output dir>/<profile>_resume.pdf after rendering the resume and converting
\* it with exactly one set_content call and exactly one pdf call.
C17_BuildResumePdf ==
    (/\ ret.op = "build_resume_pdf"
     /\ ret.arg.data_dir = NoneArg
     /\ TemplateFile \in fs.files
     /\ TheOutputDir \notin fs.files
     /\ SubSeq(TheOutputDir, 1, Len(TheOutputDir) - 1) \in fs.dirs)
    => /\ ret.status \in {"ok", "PlaywrightError"}
       /\ ret.status = "ok" =>
             /\ ret.value = Append(TheOutputDir,
                                   IF ret.arg.profile = "p1" THEN "p1_resume.pdf"
                                   ELSE "p2_resume.pdf")
             /\ Cardinality({i \in 1..Len(calls) : calls[i].op = "set_content"}) = 1
             /\ Cardinality({i \in 1..Len(calls) : calls[i].op = "pdf"}) = 1

\* C18: in every successful run of html_to_pdf the browser operations happen
\* once each in the order launch, new_page, set_content(html_content),
\* wait_for_load_state('networkidle'), pdf, close; no pdf comes before the
\* wait, and the output's parent directory exists before the launch.
C18_BrowserOrder ==
    /\ (ret.op = "html_to_pdf" /\ ret.status = "ok") =>
          /\ OpsOf(calls) = <<"launch", "new_page", "set_content",
                              "wait_for_load_state", "pdf", "close">>
          /\ calls[3].arg = ret.arg.html_content
          /\ calls[4].arg = <<"networkidle">>
    /\ gen.op = "html_to_pdf" =>
          /\ \A i \in 1..Len(calls) :
                calls[i].op = "pdf" =>
                   \E j \in 1..(i - 1) : calls[j].op = "wait_for_load_state"
          /\ DirsAbove(RequestedPath(ret.arg.output_path)) \subseteq fs.dirs

\* A run that wrote ~/new/sub/r.pdf has returned.
C18_Witness ==
    /\ ret.op = "html_to_pdf"
    /\ ret.status = "ok"
    /\ Len(calls) = 6
    /\ ret.arg.output_path = PathArg(Home \o <<"new", "sub", "r.pdf">>)
    /\ Home \o <<"new", "sub", "r.pdf">> \in fs.files

\* C19: html_to_pdf calls page.pdf with format 'Letter', print_background
\* true, a margin whose top and bottom are both '0.5in', and the path equal to
\* the requested output path as a string.
C19_PdfSettings ==
    (ret.op \in {"running", "html_to_pdf"} /\ ret.arg.html_path = NoneArg
     /\ ret.arg.data_dir = NoneArg /\ gen.op \in {"none", "html_to_pdf"}) =>
        \A i \in 1..Len(calls) :
            calls[i].op = "pdf" =>
                /\ calls[i].kwargs.format = "Letter"
                /\ calls[i].kwargs.print_background = TRUE
                /\ calls[i].kwargs.path = RequestedPathStr(ret.arg.output_path)
                /\ "margin" \in calls[i].kwargs.keys
                /\ calls[i].kwargs.margin.top = "0.5in"
                /\ calls[i].kwargs.margin.bottom = "0.5in"

\* html_file_to_pdf was just called.
CalledHtmlFileToPdf ==
    /\ ret.op = "none"
    /\ \/ ret'.op = "html_file_to_pdf"
       \/ ret'.op = "running" /\ gen'.op = "html_file_to_pdf"

\* C20: html_file_to_pdf raises FileNotFoundError ('HTML file not found')
\* when the HTML file does not exist, and then has no effect: no browser is
\* launched, no page operation is invoked, and the PDF's parent directory is
\* not created.
C20_MissingHtmlFile ==
    [][(CalledHtmlFileToPdf
        /\ ~PathExists(fs, RequestedPath(ret'.arg.html_path)))
       => /\ ret'.op = "html_file_to_pdf"
          /\ ret'.status = "FileNotFoundError"
          /\ ret'.value[1] = "HTML file not found: "
          /\ fs' = fs
          /\ texts' = texts
          /\ calls' = <<>>
          /\ gen'.pc = "idle"]_vars

\* in.html is missing, and ~/new/sub, the parent of the PDF, was not created.
C20_Witness ==
    /\ ret.op = "html_file_to_pdf"
    /\ ret.status = "FileNotFoundError"
    /\ ret.arg.output_path = PathArg(Home \o <<"new", "sub", "r.pdf">>)
    /\ Home \o <<"new">> \notin fs.dirs \cup fs.files
    /\ calls = <<>>

-----------------------------------------------------------------------------
(* Claims about the recommendations and the preferred skills of compare_skills *)

\* The recommendations hold a message of this kind.
HasRec(kind) ==
    \E i \in 1..Len(analysis.recommendations) :
        analysis.recommendations[i].kind = kind

\* How many entries of required_skills have a lower-case-equal resume skill.
MatchedRequired ==
    Cardinality({i \in 1..Len(required_skills) :
                    HasLowerEqual(required_skills[i], resume_skills)})

\* C27: the recommendations of compare_skills are consistent: the "less than
\* 70%" message and the "Strong skill match!" message never appear together;
\* the "Consider adding these N required skills" message appears exactly when
\* missing_required_skills is non-empty, with N its length; "Strong skill
\* match!" appears only when at least 80% of the required entries are matched,
\* and it does appear for an empty required_skills list.
C27_Recommendations ==
    analysis.done =>
        /\ ~(HasRec("less_than_70") /\ HasRec("strong_match"))
        /\ HasRec("consider_adding_required")
               <=> analysis.missing_required_skills # <<>>
        /\ \A i \in 1..Len(analysis.recommendations) :
               analysis.recommendations[i].kind = "consider_adding_required"
                  => analysis.recommendations[i].n
                         = Len(analysis.missing_required_skills)
        /\ HasRec("strong_match")
               => 5 * MatchedRequired >= 4 * Len(required_skills)
        /\ required_skills = <<>> => HasRec("strong_match")

\* A call where more than 80% but not all of the required entries match: the
\* "Strong skill match!" and the "Consider adding" messages are both there.
C27_Witness ==
    /\ analysis.done
    /\ HasRec("strong_match")
    /\ HasRec("consider_adding_required")
    /\ ~HasRec("less_than_70")

\* C28: matching_skills is drawn from required_skills only: a preferred skill
\* that the resume has and that is not also a required skill appears in none
\* of matching_skills, missing_required_skills and missing_preferred_skills,
\* and skill_match_percentage is the rounded share of the required entries
\* the resume has (100.0 for none required), whatever preferred_skills is.
C28_PreferredApart ==
    analysis.done =>
        /\ Range(analysis.matching_skills) \subseteq Range(required_skills)
        /\ \A i \in 1..Len(preferred_skills) :
               (/\ HasLowerEqual(preferred_skills[i], resume_skills)
                /\ preferred_skills[i] \notin Range(required_skills))
                  => preferred_skills[i] \notin
                         (Range(analysis.matching_skills)
                          \cup Range(analysis.missing_required_skills)
                          \cup Range(analysis.missing_preferred_skills))
        /\ IF required_skills = <<>>
           THEN analysis.skill_match_percentage = 1000
           ELSE IsRoundedPct(analysis.skill_match_percentage, MatchedRequired,
                             Len(required_skills))

\* A call where the resume has the preferred skill, which is not a required
\* one, and has a required skill too.
C28_Witness ==
    /\ analysis.done
    /\ analysis.matching_skills # <<>>
    /\ \E i \in 1..Len(preferred_skills) :
           /\ HasLowerEqual(preferred_skills[i], resume_skills)
           /\ preferred_skills[i] \notin Range(required_skills)

-----------------------------------------------------------------------------
(* Claims about Experience.is_current *)

\* The entries of the experience.yml that load_experience read.
EntriesRead ==
    LET profile == Join(loader.profile_dir, "experience.yml")
        common == Join(loader.common_dir, "experience.yml")
    IN  yaml[IF profile \in fs.files THEN profile ELSE common].experiences

\* C21: Experience.is_current is true exactly when the current flag is true or
\* end_date is None: an experience with current false and no end_date is
\* current, and one is not current only when current is false and an end_date
\* is set.  Every experience load_experience builds from an entry whose
\* end_date is absent or empty is current, whatever the entry's current flag.
C21_IsCurrent ==
    (ret.op = "load_experience" /\ ret.status = "ok") =>
        /\ Len(ret.value) = Len(EntriesRead)
        /\ \A i \in 1..Len(ret.value) :
              LET exp == ret.value[i]
                  entry == EntriesRead[i]
              IN  /\ (~exp.current /\ exp.end_date = <<>>) => IsCurrent(exp)
                  /\ exp.current => IsCurrent(exp)
                  /\ ~IsCurrent(exp) <=> (~exp.current /\ exp.end_date # <<>>)
                  /\ ("end_date" \notin entry.keys \/ entry.end_date = <<>>)
                        => IsCurrent(exp)
                  /\ ("end_date" \in entry.keys /\ entry.end_date # <<>>
                      /\ ("current" \notin entry.keys \/ ~entry.current))
                        => ~IsCurrent(exp)

\* load_experience built an experience that is current although its entry
\* says current: false (the entry's end_date is empty), and one that is not.
C21_Witness ==
    /\ ret.op = "load_experience"
    /\ ret.status = "ok"
    /\ \E i, j \in 1..Len(ret.value) :
          /\ "current" \in EntriesRead[i].keys
          /\ ~EntriesRead[i].current
          /\ "end_date" \in EntriesRead[i].keys
          /\ IsCurrent(ret.value[i])
          /\ ~IsCurrent(ret.value[j])

-----------------------------------------------------------------------------
(* Claims about the add-skill command *)

\* The data directory the add_skill call that just ended worked on.
AddSkillDataDir == GetDataDir(fs, env, ret.arg.data_dir_opt).path

\* C22: add-skill updates the profile named by its profile argument: after
\* add_skill(profile, skill_name) has added a skill, the skill is among the
\* skills ResumeLoader(profile).load_skills() returns for the same data
\* directory.
C22_AddSkillUpdatesProfile ==
    (ret.op = "add_skill" /\ ret.value.outcome = "added") =>
        LET made == NewLoader(fs, env, ret.arg.profile)
            got == LoadSkills(fs, yaml, made.loader)
        IN  (made.status = "ok" /\ made.loader.data_dir = AddSkillDataDir) =>
                /\ got.status = "ok"
                /\ \E i \in 1..Len(got.value) :
                      got.value[i].name = ret.arg.skill_name

\* The names of a skills list are pairwise distinct when lower-cased.
DistinctLower(skills) ==
    \A i, j \in 1..Len(skills) :
        i # j => Lower(skills[i].name) # Lower(skills[j].name)

\* The name is in the skills list, in some letter case.
NamePresent(doc, skill_name) ==
    \E i \in 1..Len(doc.skills) : Lower(doc.skills[i].name) = Lower(skill_name)

\* after is before with exactly one entry of that name appended at the end.
AppendedOne(before, after, skill_name) ==
    /\ Len(after.skills) = Len(before.skills) + 1
    /\ after = [before EXCEPT
                   !.skills = Append(@, after.skills[Len(after.skills)])]
    /\ after.skills[Len(after.skills)].name = skill_name

\* One add_skill call, from the files yb to the files ya, with arguments a
\* on the skills file used.
AddSkillStep(yb, ya, a, used, outcome) ==
    /\ DOMAIN ya = DOMAIN yb
    /\ \A p \in DOMAIN yb :
          /\ ya[p] = yb[p] \/ (p = used /\ AppendedOne(yb[p], ya[p], a.skill_name))
          /\ (~yb[p].null /\ DistinctLower(yb[p].skills))
                => DistinctLower(ya[p].skills)
    /\ (used \in DOMAIN yb /\ ~yb[used].null /\ "skills" \in yb[used].keys) =>
          /\ NamePresent(yb[used], a.skill_name) => (ya = yb /\ outcome = "exists")
          /\ ~NamePresent(yb[used], a.skill_name)
                => (AppendedOne(yb[used], ya[used], a.skill_name)
                    /\ outcome = "added")
    /\ outcome = "added" <=> ya # yb

\* C25: add_skill preserves the uniqueness of skill names: a skills.yml whose
\* names are pairwise distinct when lower-cased stays so after every call;
\* each call either appends exactly one entry at the end (name not present)
\* or leaves the file unchanged (name present in any letter case), and never
\* removes, reorders or modifies an existing entry.
C25_AddSkillKeepsNamesUnique ==
    [][(ret.op = "none" /\ ret'.op = "add_skill") =>
          /\ fs' = fs
          /\ texts' = texts
          /\ AddSkillStep(yaml, yaml', ret'.arg,
                 Join(Join(GetDataDir(fs, env, ret'.arg.data_dir_opt).path,
                           "common"), "skills.yml"),
                 ret'.value.outcome)]_vars

\* Two skills were added, one call after the other, to a list of two, and
\* the four names are distinct when lower-cased.
C25_Witness ==
    /\ ret.op = "add_skill"
    /\ ret.value.outcome = "added"
    /\ SkillsYml \in DOMAIN yaml
    /\ Len(yaml[SkillsYml].skills) >= 4
    /\ DistinctLower(yaml[SkillsYml].skills)
    /\ yaml[SkillsYml].skills[Len(yaml[SkillsYml].skills)].name = ret.arg.skill_name

-----------------------------------------------------------------------------
(* Claims about the build and analyze commands *)

\* The loader of a profile in the data directory d.
LoaderFor(d, profile) ==
    [constructed |-> TRUE, profile |-> profile, data_dir |-> d,
     common_dir |-> Join(d, "common"), profile_dir |-> ProfileDir(d, profile)]

\* The data directory selected by the --data-dir option of the command that
\* just ended holds the named profile, and the profile is complete.
CompleteProfileSelected ==
    LET d == GetDataDir(fs, env, ret.arg.data_dir)
    IN  /\ d.status = "ok"
        /\ Exists(fs, ProfileDir(d.path, ret.arg.profile))
        /\ LoadResume(fs, yaml, LoaderFor(d.path, ret.arg.profile)).status = "ok"

\* C24: build and analyze load the named profile from the data directory
\* selected by --data-dir (by default RESUME_DATA_DIR or the project data
\* directory): for an existing, complete profile there, the ResumeLoader is
\* constructed and load_resume succeeds, so that build reaches the generation
\* of the files and does not exit with code 1 before it.
C24_BuildLoadsProfile ==
    (ret.op \in {"build", "analyze"} /\ CompleteProfileSelected)
        => ret.value.loaded


-----------------------------------------------------------------------------
(* Claims about the generate-profile command *)

\* The PDF files of a profile, wherever they are.
PdfsOf(profile) ==
    {p \in fs.files : Name(p) = ResumeFileName(profile, "pdf")}

\* C23: when generate_profile has written the profile files and auto_build
\* is on, a PDF of the new profile has been produced in the same run: the
\* PDF file is there, or the browser was asked for it.
C23_AutoBuildPdf ==
    (/\ ret.op = "generate_profile"
     /\ ret.arg.auto_build
     /\ ret.value.outcome = "written")
        => (PdfsOf(ret.arg.profile_name) # {} \/ calls # <<>>)

\* A path in or below a directory profiles/<name>.
InProfileDir(p, name) ==
    \E k \in 1..(Len(p) - 1) : p[k] = "profiles" /\ p[k + 1] = name

ProfileTree(f, name) ==
    [dirs |-> {p \in f.dirs : InProfileDir(p, name)},
     files |-> {p \in f.files : InProfileDir(p, name)}]

\* profiles/<name> is neither created nor modified by the step.
ProfileDirKept(name) ==
    /\ ProfileTree(fs', name) = ProfileTree(fs, name)
    /\ \A p \in ProfileTree(fs, name).files :
          /\ p \in DOMAIN yaml => (p \in DOMAIN yaml' /\ yaml'[p] = yaml[p])
          /\ p \in DOMAIN texts => (p \in DOMAIN texts' /\ texts'[p] = texts[p])

\* The cases of the step that calls generate_profile, from the disk before
\* the call and the arguments of the call.
JobFileMissing == Resolve(ret'.arg.job_file) \notin fs.dirs \cup fs.files

JobDescriptionBlank ==
    /\ Resolve(ret'.arg.job_file) \in fs.files
    /\ \A i \in 1..Len(texts[Resolve(ret'.arg.job_file)]) :
          texts[Resolve(ret'.arg.job_file)][i] \in {" ", CR, LF}

CvFileMissing ==
    IF ret'.arg.cv_file.kind # "None"
    THEN Resolve(ret'.arg.cv_file.value) \notin fs.dirs \cup fs.files
    ELSE /\ GetDataDir(fs, env, ret'.arg.data_dir).status = "ok"
         /\ Join(Join(GetDataDir(fs, env, ret'.arg.data_dir).path, "common"),
                 "experience.yml") \notin fs.dirs \cup fs.files

PromptDeclined == ~ret'.arg.skip_confirmation /\ ret'.arg.confirm = "no"

GenerateProfileStep == ret.op = "none" /\ ret'.op = "generate_profile"

\* C26: a call of generate_profile where the job file is missing, the job
\* description is empty or white space only, the CV or experience file is
\* missing, or the user answers no to the prompt (skip_confirmation off)
\* leaves profiles/<profile_name> as it was: not created, not modified.  In
\* the first three cases the agents are not run and the exit code is 1.
C26_NothingWrittenUnlessConfirmed ==
    [][GenerateProfileStep =>
          /\ (JobFileMissing \/ JobDescriptionBlank \/ CvFileMissing
                \/ PromptDeclined)
                => ProfileDirKept(ret'.arg.profile_name)
          /\ (JobFileMissing \/ JobDescriptionBlank \/ CvFileMissing)
                => (ret'.value.code = 1 /\ ~ret'.value.agents_run)]_vars

\* The user has declined after the agents ran, for a profile that is new.
C26_Witness ==
    /\ ret.op = "generate_profile"
    /\ ret.value.outcome = "cancelled"
    /\ ret.value.agents_run
    /\ ~ret.arg.skip_confirmation
    /\ ret.arg.confirm = "no"
    /\ ProfileTree(fs, ret.arg.profile_name).dirs = {}

=============================================================================
